---- MODULE Spec2Model ----
(***************************************************************************)
(* A model of the api-server repository: bearer-token authentication       *)
(* (services/auth_service.py, dependencies.py), the item endpoints         *)
(* (routers/items.py, services/item_service.py,                            *)
(* repositories/item_repository.py) and LINE login with user provisioning  *)
(* (routers/auth.py, services/user_service.py,                             *)
(* repositories/user_repository.py).                                       *)
(*                                                                         *)
(* Nine specifications share the variables:                                *)
(*   Spec       the item endpoints that work on one item, one request per  *)
(*              step                                                       *)
(*   SpecList   the listing and search endpoints                           *)
(*   SpecAuth   every item endpoint under every Authorization header       *)
(*   SpecJwt    create_jwt_token / verify_jwt_token over a token space     *)
(*   SpecLogin  concurrent logins and user creations, one database         *)
(*              statement per step                                         *)
(*   SpecPost   creation and update of posts with a location               *)
(*   SpecPrice  the price validation of item creation and update           *)
(*   SpecSession     requests with a database session each: repository     *)
(*              writes under database faults, user deletion, the release   *)
(*              of the session                                             *)
(*   SpecMiddleware  the authentication-context middleware over every      *)
(*              Authorization header                                       *)
(***************************************************************************)
EXTENDS Integers, Sequences, FiniteSets, TLC

VARIABLES
    now,        \* the clock (datetime.utcnow / func.now()), in ticks
    users,      \* table "users": a set of rows [id, line_user_id]
    useq,       \* number of user ids handed out so far
    items,      \* table "items": a set of rows
    iseq,       \* number of item ids handed out so far
    resp,       \* the last HTTP response of an item endpoint (with its request)
    jtok,       \* SpecJwt: the token last created or verified
    jres,       \* SpecJwt: the outcome of that call
    lp,         \* SpecLogin: per worker, the position and locals of its call
    posts,      \* table "posts": a set of rows
    pres,       \* SpecPost: the outcome of the last post operation
    pv,         \* SpecPrice: the price last submitted and what became of it
    sess,       \* SpecSession: per request, its database session and position
    mw          \* SpecMiddleware: the request as the middleware passed it on

vars == <<now, users, useq, items, iseq, resp, jtok, jres, lp, posts, pres, pv, sess, mw>>

(***************************************************************************)
(* Bounds of the model.                                                    *)
(***************************************************************************)
MaxNow == 1          \* the clock runs over 0..MaxNow
JwtExpireTicks == 1  \* settings.jwt_expire_minutes, in ticks
MaxItems == 2        \* item ids handed out in one behaviour
MaxUserRows == 3     \* user ids handed out in one behaviour

(***************************************************************************)
(* Text.  A string is a sequence of one-character strings.                 *)
(***************************************************************************)
\* str.lower() on one character
LowerChar(c) ==
    CASE c = "A" -> "a"
      [] c = "B" -> "b"
      [] OTHER -> c

\* str.lower()
Lower(s) == [i \in DOMAIN s |-> LowerChar(s[i])]

(***************************************************************************)
(* Bearer tokens.  A token is what the client sends as <token>: either a   *)
(* string that is no JWT at all (form "garbage") or a JWT with a signature *)
(* (good: under settings.jwt_secret), an exp claim, a sub claim and the    *)
(* remaining claims of JWTPayload (line_user_id, iat) present or not.      *)
(***************************************************************************)
\* values of the sub claim: strings, a missing claim, a claim that is no string
SubValues == {"1", "2", "3", "x", "missing", "nonstr"}

Jwt(sig, exp, sub, complete) ==
    [form |-> "jwt", sig |-> sig, exp |-> exp, sub |-> sub, complete |-> complete]

GarbageToken == [form |-> "garbage", sig |-> "bad", exp |-> 0, sub |-> "missing",
                 complete |-> FALSE]

Tokens ==
    {GarbageToken} \cup
    { Jwt(sig, exp, sub, complete) :
        sig \in {"good", "bad"}, exp \in 0..MaxNow, sub \in SubValues,
        complete \in BOOLEAN }

\* int(payload.sub): the integer a sub string parses to, 0 for ValueError
\* (user ids start at 1)
IntOfSub(sub) ==
    CASE sub = "1" -> 1
      [] sub = "2" -> 2
      [] sub = "3" -> 3
      [] sub = "4" -> 4
      [] OTHER -> 0

\* str(user_id)
StrOfId(id) ==
    CASE id = 1 -> "1"
      [] id = 2 -> "2"
      [] id = 3 -> "3"
      [] id = 4 -> "4"
      [] OTHER -> "x"

\* jose.jwt.decode: the signature first, then the registered claims in
\* jose's order (exp before sub)
jwt_decode(token, t) ==
    IF token.form # "jwt" THEN "JWTError"
    ELSE IF token.sig # "good" THEN "JWTError"
    ELSE IF token.exp < t THEN "ExpiredSignatureError"
    ELSE IF token.sub = "nonstr" THEN "JWTError"
    ELSE "ok"

AuthFail(status, message) ==
    [ok |-> FALSE, status |-> status, message |-> message, sub |-> "missing"]

\* a verification whose handler for jose's JWTError also takes its subclass
\* ExpiredSignatureError (the fault the property JwtRejections must detect)
verify_jwt_token_one_handler(token, t) ==
    LET d == jwt_decode(token, t) IN
    IF d \in {"ExpiredSignatureError", "JWTError"} THEN AuthFail(401, "Invalid token")
    ELSE IF ~token.complete \/ token.sub = "missing"
         THEN AuthFail(500, "Token verification failed")
    ELSE [ok |-> TRUE, status |-> 200, message |-> "", sub |-> token.sub]

\* AuthService.verify_jwt_token
verify_jwt_token(token, t) ==
    LET d == jwt_decode(token, t) IN
    IF d = "ExpiredSignatureError" THEN AuthFail(401, "Token has expired")
    ELSE IF d = "JWTError" THEN AuthFail(401, "Invalid token")
    ELSE IF ~token.complete \/ token.sub = "missing"
         THEN AuthFail(500, "Token verification failed")   \* JWTPayload(**payload) raises
    ELSE [ok |-> TRUE, status |-> 200, message |-> "", sub |-> token.sub]

\* AuthService.create_jwt_token
create_jwt_token(user_id, t) ==
    Jwt("good", t + JwtExpireTicks, StrOfId(user_id), TRUE)

(***************************************************************************)
(* Authorization headers: absent, or a value that str.split() cuts into    *)
(* nparts words, the first of them the scheme and the second the token.    *)
(***************************************************************************)
NoHeader == [present |-> FALSE, nparts |-> 0, scheme |-> "", token |-> GarbageToken]

HeaderOf(scheme, token) ==
    [present |-> TRUE, nparts |-> 2, scheme |-> scheme, token |-> token]

\* the Authorization headers of the requests: none, one word, three words,
\* another scheme, and Bearer (in either case) with no JWT, a bad signature,
\* a token that expires at tick 0, tokens of users 1, 2 and 3 (3 has no
\* row), a subject that is no integer, no subject, an incomplete payload
Headers ==
    { NoHeader,
      [present |-> TRUE, nparts |-> 1, scheme |-> "Bearer", token |-> GarbageToken],
      [present |-> TRUE, nparts |-> 3, scheme |-> "Bearer", token |-> GarbageToken],
      HeaderOf("Basic", Jwt("good", MaxNow, "1", TRUE)),
      HeaderOf("Bearer", GarbageToken),
      HeaderOf("Bearer", Jwt("bad", MaxNow, "1", TRUE)),
      HeaderOf("Bearer", Jwt("good", 0, "1", TRUE)),
      HeaderOf("Bearer", Jwt("good", MaxNow, "1", TRUE)),
      HeaderOf("bearer", Jwt("good", MaxNow, "2", TRUE)),
      HeaderOf("Bearer", Jwt("good", MaxNow, "3", TRUE)),
      HeaderOf("Bearer", Jwt("good", MaxNow, "x", TRUE)),
      HeaderOf("Bearer", Jwt("good", MaxNow, "missing", TRUE)),
      HeaderOf("Bearer", Jwt("good", MaxNow, "1", FALSE)) }

\* the headers of the two users that own items, and of the callers: these and
\* user 3, who has a token and no row
OwnerHeaders ==
    { HeaderOf("Bearer", Jwt("good", MaxNow, "1", TRUE)),
      HeaderOf("bearer", Jwt("good", MaxNow, "2", TRUE)) }

CallerHeaders == OwnerHeaders \cup {HeaderOf("Bearer", Jwt("good", MaxNow, "3", TRUE))}

\* scheme.lower(), on the schemes of the model
LowerScheme(s) == IF s \in {"Bearer", "bearer"} THEN "bearer" ELSE "basic"

\* AuthService.extract_token_from_header
extract_token_from_header(h) ==
    IF ~h.present THEN AuthFail(401, "Authorization header is missing")
    ELSE IF h.nparts # 2 THEN AuthFail(401, "Invalid authorization header format")
    ELSE IF LowerScheme(h.scheme) # "bearer"
         THEN AuthFail(401, "Invalid authorization scheme")
    ELSE [ok |-> TRUE, status |-> 200, message |-> "", sub |-> "missing"]

\* AuthService.get_current_user_id and the dependency get_current_user_id that
\* turns its JWTError into an HTTPException of the same status:
\* [ok, status, message, uid]
get_current_user_id(h, t) ==
    LET e == extract_token_from_header(h) IN
    IF ~e.ok THEN [ok |-> FALSE, status |-> e.status, message |-> e.message, uid |-> 0]
    ELSE LET p == verify_jwt_token(h.token, t) IN
         IF ~p.ok
         THEN [ok |-> FALSE, status |-> p.status, message |-> p.message, uid |-> 0]
         ELSE IF IntOfSub(p.sub) = 0
              THEN [ok |-> FALSE, status |-> 401,
                    message |-> "Invalid user ID in token", uid |-> 0]
              ELSE [ok |-> TRUE, status |-> 200, message |-> "", uid |-> IntOfSub(p.sub)]

(***************************************************************************)
(* The clock.                                                              *)
(***************************************************************************)
Tick ==
    /\ now < MaxNow
    /\ now' = now + 1
    /\ UNCHANGED <<users, useq, items, iseq, resp, jtok, jres, lp, posts, pres, pv, sess, mw>>

(***************************************************************************)
(* SpecJwt: tokens are created and verified.                               *)
(***************************************************************************)
NoJres == [op |-> "none", ok |-> FALSE, status |-> 0, message |-> "", sub |-> "missing",
           at |-> 0]

UserIds == 1..3

\* a call of AuthService.create_jwt_token
CreateJwt(uid) ==
    /\ jtok' = create_jwt_token(uid, now)
    /\ jres' = [op |-> "create", ok |-> TRUE, status |-> 200, message |-> "",
                sub |-> StrOfId(uid), at |-> now]
    /\ UNCHANGED <<now, users, useq, items, iseq, resp, lp, posts, pres, pv, sess, mw>>

\* a call of AuthService.verify_jwt_token, on a client's token or on the
\* token created last
VerifyJwt(token) ==
    /\ LET r == verify_jwt_token(token, now) IN
       jres' = [op |-> "verify", ok |-> r.ok, status |-> r.status,
                message |-> r.message, sub |-> r.sub, at |-> now]
    /\ jtok' = token
    /\ UNCHANGED <<now, users, useq, items, iseq, resp, lp, posts, pres, pv, sess, mw>>

(***************************************************************************)
(* Items.  Text columns hold sequences of characters; NullText is SQL NULL *)
(* in a text column and Python None in a text field, NullTime the same for *)
(* a timestamp.                                                            *)
(***************************************************************************)
NullText == << >>
NullTime == -1

\* the users that exist while the item endpoints are exercised: ids 1 and 2;
\* a token may also name id 3, which has no row
ItemUsers == {[id |-> 1, line_user_id |-> "U1"], [id |-> 2, line_user_id |-> "U2"]}

NoRow == [id |-> 0, user_id |-> 0, name |-> NullText, description |-> NullText,
          price |-> 0, created_at |-> 0, updated_at |-> NullTime]

\* Decimal("1000000.00"), in the price unit of the model
MaxPrice == 1000000

\* request bodies of POST /api/items/: name, description, price and a user_id
\* the client may add (0: the body has none)
CreateBodies ==
    { [name |-> <<"a">>, description |-> NullText, price |-> 1, user_id |-> 0],
      [name |-> <<"a">>, description |-> NullText, price |-> 1, user_id |-> 2],
      [name |-> <<"A", "b">>, description |-> <<"b">>, price |-> 2, user_id |-> 0],
      [name |-> <<"a">>, description |-> NullText, price |-> 0, user_id |-> 0] }

\* request bodies of PUT /api/items/{id}: the fields the body sets (exclude_unset)
\* and their values; a field may be set to null
UpdateBodies ==
    { [fields |-> {}, name |-> NullText, description |-> NullText, price |-> 0],
      [fields |-> {"name"}, name |-> <<"b">>, description |-> NullText, price |-> 0],
      [fields |-> {"description", "price"}, name |-> NullText,
       description |-> NullText, price |-> 2],
      [fields |-> {"name"}, name |-> NullText, description |-> NullText, price |-> 0] }

\* UserRepository.get_by_id, as a test of existence
UserRepository_get_by_id(utbl, user_id) == \E u \in utbl : u.id = user_id

\* schemas.ItemCreate: the field validators of the request body (price > 0, at
\* most 1,000,000.00; name not blank); a user_id in the body is no field of the
\* schema and is dropped
ItemCreate_valid(body) ==
    /\ body.name # NullText
    /\ body.price > 0
    /\ body.price <= MaxPrice

\* ItemService._validate_item_create_data: "" or the ItemValidationError message
validate_item_create_data(data) ==
    IF data.name = NullText THEN "Item name cannot be empty"
    ELSE IF data.price <= 0 THEN "Item price must be greater than 0"
    ELSE IF data.price > MaxPrice THEN "Item price cannot exceed 1,000,000.00"
    ELSE ""

\* a validation of update data without the test for "no field set" (the fault
\* the property EmptyUpdateRejected must detect)
validate_item_update_fields_only(data) ==
    IF "price" \in data.fields /\ data.price <= 0
    THEN "Item price must be greater than 0"
    ELSE IF "price" \in data.fields /\ data.price > MaxPrice
         THEN "Item price cannot exceed 1,000,000.00"
    ELSE ""

\* ItemService._validate_item_update_data: "" or the ItemValidationError message
validate_item_update_data(data) ==
    IF data.fields = {} THEN "At least one field must be provided for update"
    ELSE IF "price" \in data.fields /\ data.price <= 0
         THEN "Item price must be greater than 0"
    ELSE IF "price" \in data.fields /\ data.price > MaxPrice
         THEN "Item price cannot exceed 1,000,000.00"
    ELSE ""

\* ItemRepository.create: the row inserted for user_id; the id is the next of
\* the sequence and created_at the database's now()
ItemRepository_create(seq, data, user_id, t) ==
    [id |-> seq + 1, user_id |-> user_id, name |-> data.name,
     description |-> data.description, price |-> data.price,
     created_at |-> t, updated_at |-> NullTime]

\* ItemRepository.get_by_id: the row with that id and owner, or NoRow
ItemRepository_get_by_id(tbl, item_id, user_id) ==
    IF \E r \in tbl : r.id = item_id /\ r.user_id = user_id
    THEN CHOOSE r \in tbl : r.id = item_id /\ r.user_id = user_id
    ELSE NoRow

\* a lookup that never checks existence irrespective of the owner (the fault
\* the property OwnershipDistinction must detect)
get_by_id_or_raise_scoped_only(tbl, item_id, user_id) ==
    IF ItemRepository_get_by_id(tbl, item_id, user_id) = NoRow
    THEN [err |-> "ItemNotFoundError", item |-> NoRow]
    ELSE [err |-> "", item |-> ItemRepository_get_by_id(tbl, item_id, user_id)]

\* ItemRepository.get_by_id_or_raise: [err, item]
ItemRepository_get_by_id_or_raise(tbl, item_id, user_id) ==
    IF ~(\E r \in tbl : r.id = item_id)
    THEN [err |-> "ItemNotFoundError", item |-> NoRow]
    ELSE IF (CHOOSE r \in tbl : r.id = item_id).user_id # user_id
    THEN [err |-> "ItemAccessDeniedError", item |-> NoRow]
    ELSE IF ItemRepository_get_by_id(tbl, item_id, user_id) = NoRow
    THEN [err |-> "ItemNotFoundError", item |-> NoRow]
    ELSE [err |-> "", item |-> ItemRepository_get_by_id(tbl, item_id, user_id)]

\* setattr(db_item, field, value) for the fields the update data sets
SetFields(row, data) ==
    [row EXCEPT
        !.name = IF "name" \in data.fields THEN data.name ELSE @,
        !.description = IF "description" \in data.fields THEN data.description ELSE @,
        !.price = IF "price" \in data.fields THEN data.price ELSE @]

\* an update that applies every field of the update data, set or not
\* (model_dump without exclude_unset; the fault the property
\* UpdateChangesOnlyGivenFields must detect)
apply_update_every_field(row, data, t) ==
    [row EXCEPT !.name = data.name, !.description = data.description,
                !.price = data.price, !.updated_at = t]

\* setattr for the fields the update data sets, then the commit: the unit of
\* work emits an UPDATE only when a column has a new value, and the UPDATE
\* sets updated_at (onupdate=func.now())
ApplyUpdate(row, data, t) ==
    IF SetFields(row, data) = row THEN row
    ELSE [SetFields(row, data) EXCEPT !.updated_at = t]

\* an update that fetches the row by id alone, sets and commits the fields,
\* and checks the owner afterwards (the fault the property
\* RejectedLeavesStore must detect)
update_before_access_check(tbl, item_id, user_id, data, t) ==
    IF ~(\E r \in tbl : r.id = item_id)
    THEN [err |-> "ItemNotFoundError", item |-> NoRow, tbl |-> tbl]
    ELSE LET old == CHOOSE r \in tbl : r.id = item_id
             new == ApplyUpdate(old, data, t)
         IN IF new.name = NullText
            THEN [err |-> "SQLAlchemyError", item |-> NoRow, tbl |-> tbl]
            ELSE IF old.user_id # user_id
            THEN [err |-> "ItemAccessDeniedError", item |-> NoRow,
                  tbl |-> (tbl \ {old}) \cup {new}]
            ELSE [err |-> "", item |-> new, tbl |-> (tbl \ {old}) \cup {new}]

\* ItemRepository.update: [err, item, tbl]; a name set to null violates NOT NULL
\* at the commit, which is rolled back and re-raised as SQLAlchemyError
ItemRepository_update(tbl, item_id, user_id, data, t) ==
    LET g == ItemRepository_get_by_id_or_raise(tbl, item_id, user_id) IN
    IF g.err # "" THEN [err |-> g.err, item |-> NoRow, tbl |-> tbl]
    ELSE LET new == ApplyUpdate(g.item, data, t) IN
         IF new.name = NullText
         THEN [err |-> "SQLAlchemyError", item |-> NoRow, tbl |-> tbl]
         ELSE [err |-> "", item |-> new, tbl |-> (tbl \ {g.item}) \cup {new}]

\* a delete that reports success and leaves the row in the table, as a soft
\* delete without a filter on reads would (the fault the property
\* DeletedItemIsGone must detect)
delete_keeping_row(tbl, item_id, user_id) ==
    LET item == ItemRepository_get_by_id(tbl, item_id, user_id) IN
    IF item = NoRow
    THEN IF \E r \in tbl : r.id = item_id
         THEN [err |-> "ItemAccessDeniedError", deleted |-> FALSE, tbl |-> tbl]
         ELSE [err |-> "", deleted |-> FALSE, tbl |-> tbl]
    ELSE [err |-> "", deleted |-> TRUE, tbl |-> tbl]

\* ItemRepository.delete: [err, deleted, tbl]
ItemRepository_delete(tbl, item_id, user_id) ==
    LET item == ItemRepository_get_by_id(tbl, item_id, user_id) IN
    IF item = NoRow
    THEN IF \E r \in tbl : r.id = item_id
         THEN [err |-> "ItemAccessDeniedError", deleted |-> FALSE, tbl |-> tbl]
         ELSE [err |-> "", deleted |-> FALSE, tbl |-> tbl]
    ELSE [err |-> "", deleted |-> TRUE, tbl |-> tbl \ {item}]

\* a count over the whole table (the fault the property ExactTotal must detect)
count_every_item(tbl, user_id) == Cardinality(tbl)

\* ItemRepository.count_for_user
ItemRepository_count_for_user(tbl, user_id) ==
    Cardinality({r \in tbl : r.user_id = user_id})

(***************************************************************************)
(* Queries over the items of one user.                                     *)
(***************************************************************************)
MaxPage == 2       \* page runs over 1..MaxPage
MaxPageSize == 2   \* page_size runs over 1..MaxPageSize

\* SQL LIKE: % matches any run of characters, _ any one character
RECURSIVE LikeMatch(_, _)
LikeMatch(p, s) ==
    IF p = << >> THEN s = << >>
    ELSE IF Head(p) = "%"
         THEN LikeMatch(Tail(p), s) \/ (s # << >> /\ LikeMatch(p, Tail(s)))
    ELSE /\ s # << >>
         /\ (Head(p) = "_" \/ Head(p) = Head(s))
         /\ LikeMatch(Tail(p), Tail(s))

\* func.lower(column).like(f"%{query.lower()}%"); NULL matches nothing
ColumnLike(col, query) ==
    /\ col # NullText
    /\ LikeMatch(<<"%">> \o Lower(query) \o <<"%">>, Lower(col))

\* the code point of a character (binary collation)
CharCode(c) ==
    CASE c = "A" -> 65
      [] c = "B" -> 66
      [] c = "_" -> 95
      [] c = "a" -> 97
      [] c = "b" -> 98
      [] OTHER -> 0

\* a < b for text
RECURSIVE TextLess(_, _)
TextLess(a, b) ==
    IF b = << >> THEN FALSE
    ELSE IF a = << >> THEN TRUE
    ELSE IF CharCode(Head(a)) # CharCode(Head(b))
         THEN CharCode(Head(a)) < CharCode(Head(b))
    ELSE TextLess(Tail(a), Tail(b))

\* a timestamp as a sort key: the database puts NULL below every value
\* (nulls_small) or above every value
TimeKey(t, nulls_small) ==
    IF t = NullTime THEN (IF nulls_small THEN -1 ELSE MaxNow + 1) ELSE t

\* r1 sorts strictly before r2 in ascending order of column sort_by
KeyLess(r1, r2, sort_by, nulls_small) ==
    CASE sort_by = "name" -> TextLess(r1.name, r2.name)
      [] sort_by = "price" -> r1.price < r2.price
      [] sort_by = "created_at" -> r1.created_at < r2.created_at
      [] sort_by = "updated_at" ->
            TimeKey(r1.updated_at, nulls_small) < TimeKey(r2.updated_at, nulls_small)

\* the sequences that list every row of S once
Perms(S) ==
    { f \in [1..Cardinality(S) -> S] :
        \A i, j \in 1..Cardinality(S) : i # j => f[i] # f[j] }

\* ORDER BY sort_by ASC|DESC over the rows S: every order the database may
\* return (rows with equal keys come in any order)
OrderBy(S, sort_by, sort_order) ==
    { f \in Perms(S) :
        \E nulls_small \in BOOLEAN :
            \A i, j \in 1..Cardinality(S) :
                i < j => IF sort_order = "desc"
                         THEN ~KeyLess(f[i], f[j], sort_by, nulls_small)
                         ELSE ~KeyLess(f[j], f[i], sort_by, nulls_small) }

\* a query that applies LIMIT and no OFFSET (the fault the property
\* PageOfSortedRows must detect)
limit_without_offset(f, skip, limit) ==
    SubSeq(f, 1, IF limit < Len(f) THEN limit ELSE Len(f))

\* OFFSET skip LIMIT limit
OffsetLimit(f, skip, limit) ==
    IF skip >= Len(f) THEN << >>
    ELSE SubSeq(f, skip + 1, IF skip + limit < Len(f) THEN skip + limit ELSE Len(f))

\* ItemRepository.get_all_for_user: the result lists the query may return
ItemRepository_get_all_for_user(tbl, user_id, skip, limit, sort_by, sort_order) ==
    { OffsetLimit(f, skip, limit) :
        f \in OrderBy({r \in tbl : r.user_id = user_id}, sort_by, sort_order) }

\* a search that leaves the owner out of its WHERE clause (the fault the
\* property OwnerScopedRows must detect)
search_for_user_unscoped(tbl, user_id, query, skip, limit) ==
    { OffsetLimit(f, skip, limit) :
        f \in OrderBy({r \in tbl : \/ ColumnLike(r.name, query)
                                   \/ ColumnLike(r.description, query)},
                      "created_at", "desc") }

\* ItemRepository.search_for_user: the result lists the query may return
ItemRepository_search_for_user(tbl, user_id, query, skip, limit) ==
    { OffsetLimit(f, skip, limit) :
        f \in OrderBy({r \in tbl : /\ r.user_id = user_id
                                   /\ \/ ColumnLike(r.name, query)
                                      \/ ColumnLike(r.description, query)},
                      "created_at", "desc") }

\* ItemRepository.get_user_items_by_price_range (-1: the bound is None): the
\* result lists the query may return
ItemRepository_get_user_items_by_price_range(tbl, user_id, min_price, max_price, skip, limit) ==
    { OffsetLimit(f, skip, limit) :
        f \in OrderBy({r \in tbl : /\ r.user_id = user_id
                                   /\ (min_price # -1 => r.price >= min_price)
                                   /\ (max_price # -1 => r.price <= max_price)},
                      "price", "asc") }

(***************************************************************************)
(* ItemService and the item router.  An operator gives the outcome of one  *)
(* call: the HTTP status and detail, what is returned, and the table       *)
(* afterwards.                                                             *)
(***************************************************************************)
Outcome(status, message, item, tbl, seq) ==
    [status |-> status, message |-> message, item |-> item, tbl |-> tbl, seq |-> seq]

\* ItemService.create_item.  The ItemServiceError(404) raised for a missing
\* user is raised inside the try block, whose "except Exception" re-raises it
\* as ItemServiceError(status_code=500) with the message "Unexpected error
\* creating item: " followed by str(e); the router sends the message as the
\* detail of the response.
ItemService_create_item(utbl, tbl, seq, data, user_id, t) ==
    IF ~UserRepository_get_by_id(utbl, user_id)
    THEN Outcome(500, "Unexpected error creating item: User with id not found", NoRow,
                 tbl, seq)
    ELSE IF validate_item_create_data(data) # ""
    THEN Outcome(400, validate_item_create_data(data), NoRow, tbl, seq)
    ELSE LET row == ItemRepository_create(seq, data, user_id, t) IN
         Outcome(201, "Item created successfully", row, tbl \cup {row}, seq + 1)

\* a handler that takes the owner from the body when the body names one (the
\* fault the property CreatedItemOwnedByCaller must detect)
create_item_trusting_body(utbl, tbl, seq, body, current_user_id, t) ==
    IF ~ItemCreate_valid(body)
    THEN Outcome(422, "Validation failed", NoRow, tbl, seq)
    ELSE ItemService_create_item(utbl, tbl, seq,
            [name |-> body.name, description |-> body.description,
             price |-> body.price],
            IF body.user_id # 0 THEN body.user_id ELSE current_user_id, t)

\* routers/items.py create_item: the body is parsed by schemas.ItemCreate
\* (422 from the validation handler), then the service is called with
\* current_user_id; ItemValidationError -> 400, ItemServiceError -> its status
create_item(utbl, tbl, seq, body, current_user_id, t) ==
    IF ~ItemCreate_valid(body)
    THEN Outcome(422, "Validation failed", NoRow, tbl, seq)
    ELSE ItemService_create_item(utbl, tbl, seq,
            [name |-> body.name, description |-> body.description,
             price |-> body.price],
            current_user_id, t)

\* routers/items.py get_item over ItemService.get_item_by_id_or_raise
get_item(tbl, seq, item_id, current_user_id) ==
    LET g == ItemRepository_get_by_id_or_raise(tbl, item_id, current_user_id) IN
    IF g.err = "ItemNotFoundError"
    THEN Outcome(404, "Item not found", NoRow, tbl, seq)
    ELSE IF g.err = "ItemAccessDeniedError"
    THEN Outcome(403, "User does not have access to item", NoRow, tbl, seq)
    ELSE Outcome(200, "", g.item, tbl, seq)

\* routers/items.py update_item over ItemService.update_item: the data is
\* validated before the repository looks the row up
update_item(tbl, seq, item_id, data, current_user_id, t) ==
    IF validate_item_update_data(data) # ""
    THEN Outcome(400, validate_item_update_data(data), NoRow, tbl, seq)
    ELSE LET u == ItemRepository_update(tbl, item_id, current_user_id, data, t) IN
         IF u.err = "ItemNotFoundError"
         THEN Outcome(404, "Item not found", NoRow, u.tbl, seq)
         ELSE IF u.err = "ItemAccessDeniedError"
         THEN Outcome(403, "User does not have access to item", NoRow, u.tbl, seq)
         ELSE IF u.err = "SQLAlchemyError"
         THEN Outcome(500, "Failed to update item: IntegrityError NOT NULL items.name",
                      NoRow, u.tbl, seq)
         ELSE Outcome(200, "Item updated successfully", u.item, u.tbl, seq)

\* routers/items.py delete_item over ItemService.delete_item.  For "not
\* deleted" the router raises HTTPException(404) inside its try block, and the
\* block's "except Exception" turns that into HTTPException(500).
delete_item(tbl, seq, item_id, current_user_id) ==
    LET d == ItemRepository_delete(tbl, item_id, current_user_id) IN
    IF d.err = "ItemAccessDeniedError"
    THEN Outcome(403, "User does not have access to item", NoRow, d.tbl, seq)
    ELSE IF ~d.deleted
    THEN Outcome(500, "Internal server error: 404: Item not found", NoRow, d.tbl, seq)
    ELSE Outcome(204, "", NoRow, d.tbl, seq)

\* routers/items.py get_item_with_user over ItemService.get_item_with_user:
\* the lookup is scoped to the owner, and the router's HTTPException(404) for
\* "no item" is raised inside the try block and turned into 500 as above
get_item_with_user(utbl, tbl, seq, item_id, current_user_id) ==
    LET item == ItemRepository_get_by_id(tbl, item_id, current_user_id) IN
    IF item = NoRow
    THEN Outcome(500, "Internal server error: 404: Item not found", NoRow, tbl, seq)
    ELSE IF ~UserRepository_get_by_id(utbl, current_user_id)
    THEN Outcome(404, "User not found", NoRow, tbl, seq)
    ELSE Outcome(200, "", item, tbl, seq)

(***************************************************************************)
(* Listing.  A list request is [page, page_size, sort_by, sort_order,      *)
(* search, min_price, max_price] with NullText / -1 for an absent filter.  *)
(***************************************************************************)
ListOutcome(status, message, rows, total, total_pages) ==
    [status |-> status, message |-> message, rows |-> rows, total |-> total,
     total_pages |-> total_pages]

\* ItemService._validate_list_request: "" or the ItemValidationError message
validate_list_request(request) ==
    IF request.page < 1 THEN "Page number must be at least 1"
    ELSE IF request.page_size < 1 \/ request.page_size > 100
         THEN "Page size must be between 1 and 100"
    ELSE IF request.min_price # -1 /\ request.min_price < 0
         THEN "Minimum price cannot be negative"
    ELSE IF request.max_price # -1 /\ request.max_price <= 0
         THEN "Maximum price must be greater than 0"
    ELSE IF request.min_price # -1 /\ request.max_price # -1
            /\ request.min_price >= request.max_price
         THEN "Minimum price must be less than maximum price"
    ELSE ""

\* "float(request.min_price) if request.min_price else None": 0 counts as None
TruthyPrice(p) == IF p = -1 \/ p = 0 THEN -1 ELSE p

\* ItemService.get_items_for_user: the responses the call may give
ItemService_get_items_for_user(tbl, user_id, request) ==
    IF validate_list_request(request) # ""
    THEN {ListOutcome(400, validate_list_request(request), << >>, 0, 0)}
    ELSE
    LET skip == (request.page - 1) * request.page_size
        found ==
            IF request.search # NullText
            THEN ItemRepository_search_for_user(tbl, user_id, request.search, skip,
                                                request.page_size)
            ELSE IF request.min_price # -1 \/ request.max_price # -1
            THEN ItemRepository_get_user_items_by_price_range(tbl, user_id,
                    TruthyPrice(request.min_price), TruthyPrice(request.max_price),
                    skip, request.page_size)
            ELSE ItemRepository_get_all_for_user(tbl, user_id, skip,
                    request.page_size, request.sort_by, request.sort_order)
        total_count == ItemRepository_count_for_user(tbl, user_id)
        total_pages == (total_count + request.page_size - 1) \div request.page_size
    IN { ListOutcome(200, "", rows, total_count, total_pages) : rows \in found }

\* routers/items.py get_items: ItemListRequest(...) is built inside the try
\* block; its max_price validator raises for max_price <= min_price, which
\* "except Exception" turns into 500
get_items(tbl, request, current_user_id) ==
    IF request.max_price # -1 /\ request.min_price # -1
       /\ request.max_price <= request.min_price
    THEN {ListOutcome(500, "Internal server error: 1 validation error for ItemListRequest",
                      << >>, 0, 0)}
    ELSE ItemService_get_items_for_user(tbl, current_user_id, request)

\* routers/items.py search_items over ItemService.search_items: total is
\* estimated from the length of the page
search_items(tbl, query, page, page_size, current_user_id) ==
    IF page < 1 THEN {ListOutcome(400, "Page number must be at least 1", << >>, 0, 0)}
    ELSE IF page_size < 1 \/ page_size > 100
    THEN {ListOutcome(400, "Page size must be between 1 and 100", << >>, 0, 0)}
    ELSE
    LET skip == (page - 1) * page_size
        found == ItemRepository_search_for_user(tbl, current_user_id, query, skip,
                                                page_size)
        total_of(rows) == IF Len(rows) = page_size THEN page * page_size
                          ELSE (page - 1) * page_size + Len(rows)
    IN { ListOutcome(200, "", rows, total_of(rows),
                     (total_of(rows) + page_size - 1) \div page_size) :
            rows \in found }

(***************************************************************************)
(* Spec: the item endpoints.  Every action is one HTTP request, handled    *)
(* from the authentication dependency to the response; resp records the    *)
(* request and the response.                                               *)
(***************************************************************************)
NoReq == [page |-> 0, page_size |-> 0, sort_by |-> "", sort_order |-> "",
          search |-> NullText, min_price |-> -1, max_price |-> -1]

\* no user record
NoUser == [id |-> 0, line_user_id |-> ""]

\* the update data of a request that is no update
NoData == [fields |-> {}, name |-> NullText, description |-> NullText, price |-> 0]

\* op: the endpoint; ran: the handler body (and with it the service) was
\* entered; cred: what the request carried (see BearerCredential); caller: the
\* current_user_id; pre: the row of item_id before the request, seen from the
\* caller ("absent", "own", "other"); valid: the update data passes the
\* service's validation; body_uid: the user_id of the request body; data: the
\* update data of the request; user, token_valid, expires_at: the body of
\* the response of POST /api/auth/verify (user also: the record a dependency
\* resolved); token_exp: the exp claim of the request's token
NoResp == [op |-> "none", ran |-> FALSE, cred |-> FALSE, caller |-> 0, status |-> 0,
           message |-> "", item_id |-> 0, pre |-> "na", valid |-> FALSE,
           item |-> NoRow, body_uid |-> 0, rows |-> << >>, req |-> NoReq,
           total |-> 0, total_pages |-> 0, data |-> NoData, user |-> NoUser,
           token_valid |-> FALSE, expires_at |-> -1, token_exp |-> -1]

\* the request carries "Authorization: Bearer <token>" with a token that is
\* signed under the secret, unexpired at t and has an integer subject
BearerCredential(h, t) ==
    /\ h.present /\ h.nparts = 2 /\ LowerScheme(h.scheme) = "bearer"
    /\ h.token.form = "jwt" /\ h.token.sig = "good" /\ h.token.exp >= t
    /\ IntOfSub(h.token.sub) # 0

PreOf(tbl, item_id, user_id) ==
    IF ~(\E r \in tbl : r.id = item_id) THEN "absent"
    ELSE IF \E r \in tbl : r.id = item_id /\ r.user_id = user_id THEN "own"
    ELSE "other"

\* the response of an endpoint whose dependency get_current_user_id raised
Rejected(op, h, a) ==
    [NoResp EXCEPT !.op = op, !.cred = BearerCredential(h, now),
                   !.status = a.status, !.message = a.message]

\* the response of an endpoint whose handler ran for caller a.uid
Handled(op, h, a, o) ==
    [NoResp EXCEPT !.op = op, !.ran = TRUE, !.cred = BearerCredential(h, now),
                   !.caller = a.uid, !.status = o.status, !.message = o.message]

ItemIds == 1..MaxItems

\* POST /api/items/
CreateItem(h, body) ==
    LET a == get_current_user_id(h, now)
        o == create_item(users, items, iseq, body, a.uid, now)
    IN
    /\ iseq < MaxItems
    /\ IF ~a.ok
       THEN resp' = Rejected("create", h, a) /\ UNCHANGED <<items, iseq>>
       ELSE /\ resp' = [Handled("create", h, a, o) EXCEPT
                            !.item = o.item, !.body_uid = body.user_id,
                            \* the body fails in the request validation,
                            \* before the handler
                            !.ran = (o.status # 422)]
            /\ items' = o.tbl
            /\ iseq' = o.seq
    /\ UNCHANGED <<now, users, useq, jtok, jres, lp, posts, pres, pv, sess, mw>>

\* GET /api/items/{item_id}
GetItem(h, item_id) ==
    LET a == get_current_user_id(h, now)
        o == get_item(items, iseq, item_id, a.uid)
    IN
    /\ resp' = IF ~a.ok THEN Rejected("get", h, a)
               ELSE [Handled("get", h, a, o) EXCEPT
                        !.item_id = item_id, !.item = o.item,
                        !.pre = PreOf(items, item_id, a.uid), !.valid = TRUE]
    /\ UNCHANGED <<now, users, useq, items, iseq, jtok, jres, lp, posts, pres, pv, sess, mw>>

\* PUT /api/items/{item_id}
UpdateItem(h, item_id, data) ==
    LET a == get_current_user_id(h, now)
        o == update_item(items, iseq, item_id, data, a.uid, now)
    IN
    /\ IF ~a.ok
       THEN resp' = Rejected("update", h, a) /\ UNCHANGED items
       ELSE /\ resp' = [Handled("update", h, a, o) EXCEPT
                            !.item_id = item_id, !.item = o.item,
                            !.pre = PreOf(items, item_id, a.uid),
                            !.valid = (validate_item_update_data(data) = ""),
                            !.data = data]
            /\ items' = o.tbl
    /\ UNCHANGED <<now, users, useq, iseq, jtok, jres, lp, posts, pres, pv, sess, mw>>

\* DELETE /api/items/{item_id}
DeleteItem(h, item_id) ==
    LET a == get_current_user_id(h, now)
        o == delete_item(items, iseq, item_id, a.uid)
    IN
    /\ IF ~a.ok
       THEN resp' = Rejected("delete", h, a) /\ UNCHANGED items
       ELSE /\ resp' = [Handled("delete", h, a, o) EXCEPT
                            !.item_id = item_id,
                            !.pre = PreOf(items, item_id, a.uid)]
            /\ items' = o.tbl
    /\ UNCHANGED <<now, users, useq, iseq, jtok, jres, lp, posts, pres, pv, sess, mw>>

\* GET /api/items/{item_id}/with-user
GetItemWithUser(h, item_id) ==
    LET a == get_current_user_id(h, now)
        o == get_item_with_user(users, items, iseq, item_id, a.uid)
    IN
    /\ resp' = IF ~a.ok THEN Rejected("with_user", h, a)
               ELSE [Handled("with_user", h, a, o) EXCEPT
                        !.item_id = item_id, !.item = o.item,
                        !.pre = PreOf(items, item_id, a.uid)]
    /\ UNCHANGED <<now, users, useq, items, iseq, jtok, jres, lp, posts, pres, pv, sess, mw>>

\* GET /api/items/stats/count
GetItemCount(h) ==
    LET a == get_current_user_id(h, now) IN
    /\ resp' = IF ~a.ok THEN Rejected("count", h, a)
               ELSE [Handled("count", h, a, [status |-> 200, message |-> ""]) EXCEPT
                        !.total = ItemRepository_count_for_user(items, a.uid)]
    /\ UNCHANGED <<now, users, useq, items, iseq, jtok, jres, lp, posts, pres, pv, sess, mw>>

\* the filters of GET /api/items/: none with every sort, a search, a price
\* range (one-sided, two-sided, inverted, with a zero bound), search and range
Filters ==
    { [sort_by |-> sb, sort_order |-> so, search |-> NullText,
       min_price |-> -1, max_price |-> -1] :
        sb \in {"created_at", "name", "price", "updated_at"}, so \in {"asc", "desc"} }
    \cup
    { [sort_by |-> "created_at", sort_order |-> "desc", search |-> q,
       min_price |-> -1, max_price |-> -1] : q \in {<<"a">>, <<"B">>, <<"_">>} }
    \cup
    { [sort_by |-> "created_at", sort_order |-> "desc", search |-> NullText,
       min_price |-> m[1], max_price |-> m[2]] :
        m \in {<<0, -1>>, <<2, -1>>, <<-1, 1>>, <<1, 2>>, <<2, 1>>, <<0, 2>>} }
    \cup
    { [sort_by |-> "created_at", sort_order |-> "desc", search |-> <<"b">>,
       min_price |-> 2, max_price |-> -1] }

ListRequests ==
    { [page |-> pg, page_size |-> ps, sort_by |-> f.sort_by,
       sort_order |-> f.sort_order, search |-> f.search,
       min_price |-> f.min_price, max_price |-> f.max_price] :
        pg \in 1..MaxPage, ps \in 1..MaxPageSize, f \in Filters }

SearchQueries == {<<"a">>, <<"B">>, <<"_">>}

\* GET /api/items/
GetItems(h, request) ==
    LET a == get_current_user_id(h, now) IN
    /\ IF ~a.ok
       THEN resp' = Rejected("list", h, a)
       ELSE \E o \in get_items(items, request, a.uid) :
               resp' = [Handled("list", h, a, o) EXCEPT
                            !.rows = o.rows, !.req = request, !.total = o.total,
                            !.total_pages = o.total_pages]
    /\ UNCHANGED <<now, users, useq, items, iseq, jtok, jres, lp, posts, pres, pv, sess, mw>>

\* GET /api/items/search/{query}
SearchItems(h, query, page, page_size) ==
    LET a == get_current_user_id(h, now) IN
    /\ IF ~a.ok
       THEN resp' = Rejected("search", h, a)
       ELSE \E o \in search_items(items, query, page, page_size, a.uid) :
               resp' = [Handled("search", h, a, o) EXCEPT
                            !.rows = o.rows, !.total = o.total,
                            !.total_pages = o.total_pages,
                            !.req = [NoReq EXCEPT !.page = page,
                                        !.page_size = page_size, !.search = query]]
    /\ UNCHANGED <<now, users, useq, items, iseq, jtok, jres, lp, posts, pres, pv, sess, mw>>

(***************************************************************************)
(* Posts.  A post row keeps the columns id, user_id and location of the    *)
(* table; a location is text, NullText for NULL / None.  The space is the  *)
(* whitespace of the model; "a", "b" and "4" are the characters of the     *)
(* model that [0-9a-z] matches.                                            *)
(***************************************************************************)
MaxPosts == 2          \* posts created in one behaviour
MaxGeohashLen == 12    \* max_length=12 and "len(v) > 12"

NoPost == [id |-> 0, user_id |-> 0, location |-> NullText]

\* the string of n characters c
Run(c, n) == [i \in 1..n |-> c]

\* the location fields of the request bodies: null, blank, lower case, upper
\* case, mixed, padded with spaces, with a character outside [0-9a-zA-Z], of
\* the greatest length, one longer, and of the greatest length when stripped
LocationInputs ==
    { NullText, <<" ">>, <<"a">>, <<"A">>, <<"a", "4">>, <<"b", "A">>,
      <<" ", "a", " ">>, <<"-">>, <<"a", "-">>,
      Run("a", MaxGeohashLen), Run("a", MaxGeohashLen + 1),
      <<" ">> \o Run("a", MaxGeohashLen) }

\* str.strip() at the left end
RECURSIVE LStrip(_)
LStrip(s) == IF s # << >> /\ Head(s) = " " THEN LStrip(Tail(s)) ELSE s

\* str.strip() at the right end
RECURSIVE RStrip(_)
RStrip(s) ==
    IF s # << >> /\ s[Len(s)] = " " THEN RStrip(SubSeq(s, 1, Len(s) - 1)) ELSE s

\* str.strip()
Strip(s) == RStrip(LStrip(s))

\* re.match(r'^[0-9a-z]+$', s)
MatchesGeohash(s) == s # << >> /\ \A i \in 1..Len(s) : s[i] \in {"a", "b", "4"}

\* PostCreate.validate_location / PostUpdate.validate_location of
\* schemas/post_schemas.py, after the field's max_length: [ok, value].  The
\* pattern is matched against v.lower(); the value returned is v.
validate_location(v) ==
    IF v = NullText THEN [ok |-> TRUE, value |-> NullText]
    ELSE IF Len(v) > MaxGeohashLen THEN [ok |-> FALSE, value |-> NullText]
    ELSE IF Strip(v) = << >> THEN [ok |-> TRUE, value |-> NullText]
    ELSE IF ~MatchesGeohash(Lower(Strip(v))) THEN [ok |-> FALSE, value |-> NullText]
    ELSE IF Len(Strip(v)) < 1 \/ Len(Strip(v)) > MaxGeohashLen
         THEN [ok |-> FALSE, value |-> NullText]
    ELSE [ok |-> TRUE, value |-> Strip(v)]

\* PostService._validate_geohash: "" or the PostValidationError message
validate_geohash(geohash) ==
    IF Strip(geohash) = << >> THEN "GEOHASH cannot be empty"
    ELSE IF ~MatchesGeohash(Lower(Strip(geohash)))
         THEN "GEOHASH must contain only alphanumeric characters"
    ELSE IF Len(Strip(geohash)) < 1 \/ Len(Strip(geohash)) > MaxGeohashLen
         THEN "GEOHASH must be between 1 and 12 characters"
    ELSE ""

PostOutcome(status, message, post, tbl) ==
    [status |-> status, message |-> message, post |-> post, tbl |-> tbl]

\* PostRepository.create: the row inserted (posts are not deleted in this
\* model, so the next id of the sequence is the number of rows plus one)
PostRepository_create(tbl, location, user_id) ==
    [id |-> Cardinality(tbl) + 1, user_id |-> user_id, location |-> location]

\* PostService.create_post.  As in ItemService.create_item, the
\* PostServiceError(404) for a missing user is raised inside the try block
\* and re-raised by "except Exception" with status 500.
PostService_create_post(utbl, tbl, location, user_id) ==
    IF ~UserRepository_get_by_id(utbl, user_id)
    THEN PostOutcome(500, "Unexpected error creating post: User with id not found",
                     NoPost, tbl)
    ELSE IF location # NullText /\ validate_geohash(location) # ""
    THEN PostOutcome(400, validate_geohash(location), NoPost, tbl)
    ELSE LET row == PostRepository_create(tbl, location, user_id) IN
         PostOutcome(201, "Post created successfully", row, tbl \cup {row})

\* routers/posts.py create_post: the body is parsed by schemas.PostCreate,
\* then the service is called with the validated data
create_post(utbl, tbl, location, current_user_id) ==
    IF ~validate_location(location).ok
    THEN PostOutcome(422, "Validation failed", NoPost, tbl)
    ELSE PostService_create_post(utbl, tbl, validate_location(location).value,
                                 current_user_id)

\* PostService._validate_post_update_data on data [fields, location]
validate_post_update_data(data) ==
    IF data.fields = {} THEN "At least one field must be provided for update"
    ELSE IF data.location # NullText THEN validate_geohash(data.location)
    ELSE ""

\* PostRepository.update: get_by_id_or_raise, then setattr for the fields set
PostRepository_update(tbl, post_id, user_id, data) ==
    IF ~(\E r \in tbl : r.id = post_id)
    THEN PostOutcome(404, "Post not found", NoPost, tbl)
    ELSE LET old == CHOOSE r \in tbl : r.id = post_id
             new == [old EXCEPT !.location = IF "location" \in data.fields
                                             THEN data.location ELSE @]
         IN IF old.user_id # user_id
            THEN PostOutcome(403, "User does not have access to post", NoPost, tbl)
            ELSE PostOutcome(200, "Post updated successfully", new,
                             (tbl \ {old}) \cup {new})

\* routers/posts.py update_post over PostService.update_post: the body is
\* parsed by schemas.PostUpdate, the service validates, the repository writes
update_post(tbl, post_id, fields, location, current_user_id) ==
    IF "location" \in fields /\ ~validate_location(location).ok
    THEN PostOutcome(422, "Validation failed", NoPost, tbl)
    ELSE LET data == [fields |-> fields,
                      location |-> IF "location" \in fields
                                   THEN validate_location(location).value
                                   ELSE NullText]
         IN IF validate_post_update_data(data) # ""
            THEN PostOutcome(400, validate_post_update_data(data), NoPost, tbl)
            ELSE PostRepository_update(tbl, post_id, current_user_id, data)

\* op, the caller, the location field of the request, the status and the
\* post of the response
NoPres == [op |-> "none", caller |-> 0, location |-> NullText, status |-> 0,
           post |-> NoPost]

\* a call of create_post by user current_user_id
CreatePost(current_user_id, location) ==
    LET o == create_post(users, posts, location, current_user_id) IN
    /\ Cardinality(posts) < MaxPosts
    /\ posts' = o.tbl
    /\ pres' = [op |-> "create", caller |-> current_user_id, location |-> location,
                status |-> o.status, post |-> o.post]
    /\ UNCHANGED <<now, users, useq, items, iseq, resp, jtok, jres, lp, pv, sess, mw>>

\* a call of update_post by user current_user_id
UpdatePost(current_user_id, post_id, fields, location) ==
    LET o == update_post(posts, post_id, fields, location, current_user_id) IN
    /\ posts' = o.tbl
    /\ pres' = [op |-> "update", caller |-> current_user_id, location |-> location,
                status |-> o.status, post |-> o.post]
    /\ UNCHANGED <<now, users, useq, items, iseq, resp, jtok, jres, lp, pv, sess, mw>>

(***************************************************************************)
(* Prices as decimals.  A Decimal is [coef, exp] with the value            *)
(* coef * 10^exp, as decimal.Decimal keeps the literal it was built from:  *)
(* "10.990" is [10990, -3].  The item endpoints above run on whole prices; *)
(* here the price validation of create and update is modelled on decimal  *)
(* literals.                                                               *)
(***************************************************************************)
MaxFraction == 3   \* the most fractional digits of a price of the model

Dec(coef, exp) == [coef |-> coef, exp |-> exp]

RECURSIVE Pow10(_)
Pow10(n) == IF n <= 0 THEN 1 ELSE 10 * Pow10(n - 1)

\* the whole part of a Decimal that is not negative
IntPart(d) == IF d.exp >= 0 THEN d.coef * Pow10(d.exp) ELSE d.coef \div Pow10(0 - d.exp)

\* its fractional part, in units of 10^-MaxFraction
FracPart(d) ==
    IF d.exp >= 0 THEN 0 ELSE (d.coef % Pow10(0 - d.exp)) * Pow10(MaxFraction + d.exp)

\* a > b for Decimals that are not negative
Greater(a, b) ==
    \/ IntPart(a) > IntPart(b)
    \/ IntPart(a) = IntPart(b) /\ FracPart(a) > FracPart(b)

\* Decimal("1000000.00")
MaxPriceDecimal == Dec(100000000, -2)

\* len(digit_tuple) of a coefficient
RECURSIVE NumDigits(_)
NumDigits(c) ==
    IF c < 0 THEN NumDigits(-c)
    ELSE IF c < 10 THEN 1
    ELSE 1 + NumDigits(c \div 10)

\* Decimal.normalize(): trailing zeros of the coefficient are dropped
RECURSIVE Normalize(_)
Normalize(d) ==
    IF d.coef = 0 THEN Dec(0, 0)
    ELSE IF d.coef % 10 = 0 THEN Normalize(Dec(d.coef \div 10, d.exp + 1))
    ELSE d

\* the price literals of the requests: coefficients and exponents whose value
\* stays below 10^6, and literals around the maximum
PriceInputs ==
    { Dec(c, e) :
        c \in {-1000, -1, 0, 1, 5, 10, 99, 1099, 10990, 10999, 999999},
        e \in (0 - MaxFraction)..0 }
    \cup { Dec(1, 6), Dec(2, 6), Dec(1000000, 0), Dec(1000001, 0),
           Dec(100000000, -2), Dec(100000001, -2), Dec(99999999, -2),
           Dec(1000000000, -3), Dec(1000000001, -3), Dec(10000000, -1) }

\* Field(gt=0, max_digits=10, decimal_places=2) of schemas ItemCreate.price
\* and ItemUpdate.price.  The digits are counted on the value as given or on
\* the normalized value, depending on the version of the validation library
\* (normalizes).
Field_price_ok(v, normalizes) ==
    LET d == IF normalizes THEN Normalize(v) ELSE v
        len == NumDigits(d.coef)
        decimals == IF d.exp >= 0 THEN 0 ELSE 0 - d.exp
        digits == IF d.exp >= 0 THEN len + d.exp
                  ELSE IF decimals > len THEN decimals ELSE len
    IN /\ v.coef > 0
       /\ digits <= 10
       /\ decimals <= 2
       /\ digits - decimals <= 8

\* a validator that turns the maximum itself away (the fault the property
\* PriceAcceptance must detect)
validate_price_below_maximum(v) ==
    IF v.coef <= 0 THEN "Price must be greater than 0"
    ELSE IF ~Greater(MaxPriceDecimal, v) THEN "Price cannot exceed 1,000,000.00"
    ELSE IF v.exp < -2 THEN "Price cannot have more than 2 decimal places"
    ELSE ""

\* ItemCreate.validate_price / ItemUpdate.validate_price of
\* schemas/item_schemas.py: "" or the message of the ValueError
validate_price(v) ==
    IF v.coef <= 0 THEN "Price must be greater than 0"
    ELSE IF Greater(v, MaxPriceDecimal) THEN "Price cannot exceed 1,000,000.00"
    ELSE IF v.exp < -2 THEN "Price cannot have more than 2 decimal places"
    ELSE ""

\* the price tests of ItemService._validate_item_create_data and
\* _validate_item_update_data: "" or the ItemValidationError message
validate_price_in_service(v) ==
    IF v.coef <= 0 THEN "Item price must be greater than 0"
    ELSE IF Greater(v, MaxPriceDecimal)
         THEN "Item price cannot exceed 1,000,000.00"
    ELSE ""

\* what a create or update request with price v meets on its way to the
\* repository: the request schema (422), then the service (400); 0 when the
\* price is accepted
PriceStatus(v, normalizes) ==
    IF ~Field_price_ok(v, normalizes) \/ validate_price(v) # "" THEN 422
    ELSE IF validate_price_in_service(v) # "" THEN 400
    ELSE 0

NoPv == [op |-> "none", price |-> Dec(0, 0), normalizes |-> FALSE, status |-> 0,
         accepted |-> FALSE]

\* POST /api/items/ (op "create") or PUT /api/items/{id} (op "update") with
\* price v, as far as the price is concerned
SubmitPrice(op, v, normalizes) ==
    /\ pv' = [op |-> op, price |-> v, normalizes |-> normalizes,
              status |-> PriceStatus(v, normalizes),
              accepted |-> (PriceStatus(v, normalizes) = 0)]
    /\ UNCHANGED <<now, users, useq, items, iseq, resp, jtok, jres, lp, posts, pres,
                   sess, mw>>

\* the state of the other specifications, which the item endpoints leave alone
Idle == [p \in {} |-> 0]

Init ==
    /\ now = 0
    /\ users = ItemUsers
    /\ useq = 2
    /\ items = {}
    /\ iseq = 0
    /\ resp = NoResp
    /\ jtok = GarbageToken
    /\ jres = NoJres
    /\ lp = Idle
    /\ posts = {}
    /\ pres = NoPres
    /\ pv = NoPv
    /\ sess = Idle
    /\ mw = Idle

\* the requests of Spec: of the three callers and without a header, with the
\* bodies that name one item
ByIdHeaders == CallerHeaders \cup {NoHeader}
ByIdBodies == {b \in CreateBodies : b.name = <<"a">>}

Next ==
    \/ Tick
    \/ \E h \in ByIdHeaders, body \in ByIdBodies : CreateItem(h, body)
    \/ \E h \in ByIdHeaders, item_id \in ItemIds : GetItem(h, item_id)
    \/ \E h \in ByIdHeaders, item_id \in ItemIds, data \in UpdateBodies :
            UpdateItem(h, item_id, data)
    \/ \E h \in ByIdHeaders, item_id \in ItemIds : DeleteItem(h, item_id)
    \/ \E h \in ByIdHeaders, item_id \in ItemIds : GetItemWithUser(h, item_id)
    \/ \E h \in ByIdHeaders : GetItemCount(h)

Spec == Init /\ [][Next]_vars

(***************************************************************************)
(* SpecList: the listing endpoints.  User 1 builds a store, lists and       *)
(* searches; user 2 owns rows like those of user 1, which the results of   *)
(* user 1 must leave out.                                                  *)
(***************************************************************************)
ListCaller == HeaderOf("Bearer", Jwt("good", MaxNow, "1", TRUE))
OtherOwner == HeaderOf("bearer", Jwt("good", MaxNow, "2", TRUE))
ListBodies == {b \in CreateBodies : b.user_id = 0 /\ b.price > 0}
ListUpdates == {d \in UpdateBodies : d.fields = {"name"} /\ d.name # NullText}

NextList ==
    \/ Tick
    \/ \E body \in ListBodies : CreateItem(ListCaller, body)
    \/ \E body \in ListBodies : body.name = <<"a">> /\ CreateItem(OtherOwner, body)
    \/ \E item_id \in ItemIds, data \in ListUpdates :
            UpdateItem(ListCaller, item_id, data)
    \/ \E item_id \in ItemIds : DeleteItem(ListCaller, item_id)
    \/ \E request \in ListRequests : GetItems(ListCaller, request)
    \/ \E query \in SearchQueries, page \in 1..MaxPage, page_size \in 1..MaxPageSize :
            SearchItems(ListCaller, query, page, page_size)

SpecList == Init /\ [][NextList]_vars

(***************************************************************************)
(* From a token to a user record: POST /api/auth/verify and the dependency *)
(* get_current_user.                                                       *)
(***************************************************************************)
\* UserService.get_user_by_id: the record of the user, or NoUser
UserService_get_user_by_id(utbl, user_id) ==
    IF UserRepository_get_by_id(utbl, user_id)
    THEN CHOOSE u \in utbl : u.id = user_id
    ELSE NoUser

\* the outcome of resolving a token: status and detail, the user record, and
\* for /verify the fields valid and expires_at
UserOutcome(status, message, user, token_valid, expires_at) ==
    [status |-> status, message |-> message, user |-> user,
     token_valid |-> token_valid, expires_at |-> expires_at]

\* dependencies.get_current_user over get_current_user_id: the
\* HTTPException(404) is raised in a try block that handles UserServiceError
\* only, so it reaches the client
get_current_user(h, utbl, t) ==
    LET a == get_current_user_id(h, t) IN
    IF ~a.ok THEN UserOutcome(a.status, a.message, NoUser, FALSE, -1)
    ELSE IF UserService_get_user_by_id(utbl, a.uid) = NoUser
    THEN UserOutcome(404, "User not found", NoUser, FALSE, -1)
    ELSE UserOutcome(200, "", UserService_get_user_by_id(utbl, a.uid), FALSE, -1)

\* the value FastAPI injects for "authorization: str = Depends(lambda: None)":
\* the dependency is called and returns None, whatever the request carries
DependsLambdaNone(h) == NoHeader

\* the body of routers/auth.py verify_token for the injected authorization.
\* The HTTPExceptions for "no authorization" (401) and "no user" (404) are
\* raised inside the try block, whose "except Exception" turns them into
\* 500; so is the ValueError of int(payload.sub).
verify_token_body(authorization, utbl, t) ==
    IF ~authorization.present
    THEN UserOutcome(500, "Internal server error: 401: Authorization header is required",
                     NoUser, FALSE, -1)
    ELSE LET e == extract_token_from_header(authorization)
             p == verify_jwt_token(authorization.token, t)
         IN
         IF ~e.ok THEN UserOutcome(e.status, e.message, NoUser, FALSE, -1)
         ELSE IF ~p.ok THEN UserOutcome(p.status, p.message, NoUser, FALSE, -1)
         ELSE IF IntOfSub(p.sub) = 0
         THEN UserOutcome(500, "Internal server error: invalid literal for int()",
                          NoUser, FALSE, -1)
         ELSE IF UserService_get_user_by_id(utbl, IntOfSub(p.sub)) = NoUser
         THEN UserOutcome(500, "Internal server error: 404: User not found",
                          NoUser, FALSE, -1)
         ELSE UserOutcome(200, "", UserService_get_user_by_id(utbl, IntOfSub(p.sub)),
                          TRUE, authorization.token.exp)

\* routers/auth.py verify_token
verify_token(h, utbl, t) == verify_token_body(DependsLambdaNone(h), utbl, t)

\* the request carries a bearer credential whose payload has every claim of
\* JWTPayload: a token as create_jwt_token issues it, unexpired at t
IssuedCredential(h, t) == BearerCredential(h, t) /\ h.token.complete

\* the response of an endpoint that resolves the token of header h to a user
Resolved(op, h, o) ==
    [NoResp EXCEPT !.op = op, !.ran = TRUE, !.cred = IssuedCredential(h, now),
                   !.caller = IF IssuedCredential(h, now) THEN IntOfSub(h.token.sub)
                              ELSE 0,
                   !.status = o.status, !.message = o.message, !.user = o.user,
                   !.token_valid = o.token_valid, !.expires_at = o.expires_at,
                   !.token_exp = h.token.exp]

\* POST /api/auth/verify
PostAuthVerify(h) ==
    /\ resp' = Resolved("verify", h, verify_token(h, users, now))
    /\ UNCHANGED <<now, users, useq, items, iseq, jtok, jres, lp, posts, pres, pv, sess, mw>>

\* a request to an endpoint that depends on get_current_user
ResolveCurrentUser(h) ==
    /\ resp' = Resolved("current_user", h, get_current_user(h, users, now))
    /\ UNCHANGED <<now, users, useq, items, iseq, jtok, jres, lp, posts, pres, pv, sess, mw>>

(***************************************************************************)
(* SpecAuth: every item endpoint under every Authorization header, with    *)
(* one choice of the other inputs.                                         *)
(***************************************************************************)
AuthBody == [name |-> <<"a">>, description |-> NullText, price |-> 1, user_id |-> 0]
AuthUpdate == [fields |-> {"name"}, name |-> <<"b">>, description |-> NullText,
               price |-> 0]
AuthRequest == [page |-> 1, page_size |-> MaxPageSize, sort_by |-> "created_at",
                sort_order |-> "desc", search |-> NullText, min_price |-> -1,
                max_price |-> -1]

NextAuth ==
    \/ Tick
    \/ \E h \in Headers : CreateItem(h, AuthBody)
    \/ \E h \in Headers, item_id \in ItemIds : GetItem(h, item_id)
    \/ \E h \in Headers, item_id \in ItemIds : UpdateItem(h, item_id, AuthUpdate)
    \/ \E h \in Headers, item_id \in ItemIds : DeleteItem(h, item_id)
    \/ \E h \in Headers, item_id \in ItemIds : GetItemWithUser(h, item_id)
    \/ \E h \in Headers : GetItemCount(h)
    \/ \E h \in Headers : GetItems(h, AuthRequest)
    \/ \E h \in Headers : SearchItems(h, <<"a">>, 1, MaxPageSize)
    \/ \E h \in Headers : PostAuthVerify(h)
    \/ \E h \in Headers : ResolveCurrentUser(h)

SpecAuth == Init /\ [][NextAuth]_vars

(***************************************************************************)
(* Properties of the item endpoints.                                       *)
(***************************************************************************)
\* C2: every row a list, search or price-range call returns to caller u has
\* user_id = u, in every store state and for every page, page size, sort and
\* filter.
OwnerScopedRows ==
    resp.op \in {"list", "search"} =>
        \A i \in 1..Len(resp.rows) : resp.rows[i].user_id = resp.caller

\* a search returned a row while the store holds a matching row of the other
\* owner
OwnerScopedRowsWitness ==
    /\ resp.op = "search" /\ resp.status = 200 /\ Len(resp.rows) = 1
    /\ \E r \in items : /\ r.user_id # resp.caller
                        /\ ColumnLike(r.name, resp.req.search)

DeleteStatuses ==
    (resp.ran /\ resp.op = "delete") =>
        /\ (resp.pre = "absent" => resp.status = 404)
        /\ (resp.pre = "other" => resp.status = 403)

\* C5: after every successful creation the returned item and the stored row
\* carry the caller's id as user_id, whatever user_id the body holds.
CreatedItemOwnedByCaller ==
    (resp.op = "create" /\ resp.status = 201) =>
        /\ resp.item.user_id = resp.caller
        /\ resp.item \in items
        /\ \A r \in items : r.id = resp.item.id => r.user_id = resp.caller

\* an item was created from a body that names another user
CreatedItemOwnedByCallerWitness ==
    /\ resp.op = "create" /\ resp.status = 201
    /\ resp.body_uid # 0 /\ resp.body_uid # resp.caller

\* the endpoints of the item router
ItemOps == {"create", "get", "update", "delete", "with_user", "count", "list", "search"}

\* C6: an item endpoint runs its handler or returns data only for a request
\* with a bearer credential (signed, unexpired, integer subject), and answers
\* every other request 401.
BearerOnly ==
    resp.op \in ItemOps =>
        /\ (resp.ran \/ resp.item # NoRow \/ resp.rows # << >>) => resp.cred
        /\ ~resp.cred => resp.status = 401

(***************************************************************************)
(* SpecJwt: create_jwt_token and verify_jwt_token over the tokens a client *)
(* may send and the tokens the service issues, as the clock advances.      *)
(***************************************************************************)
NextJwt ==
    \/ Tick
    \/ \E uid \in UserIds : CreateJwt(uid)
    \/ \E token \in Tokens \cup {jtok} : VerifyJwt(token)

SpecJwt == Init /\ [][NextJwt]_vars

NumWorkers == 2
Workers == 1..NumWorkers

\* the provider's user ids
LineIds == {"U1", "U2"}

\* What the provider does with GET oauth2/v2.1/verify: the connection fails,
\* the request times out, or a response arrives with a status code and a
\* body: "ok" (JSON with scope, expires_in and our client_id), "other_client"
\* (another client_id), "no_client" (no client_id), "short" (our client_id,
\* but fields of LineTokenInfo missing), "not_json"
NoOutcome == [kind |-> "none", code |-> 0, body |-> "none"]

ProviderOutcomes ==
    { [kind |-> k, code |-> 0, body |-> "none"] : k \in {"unreachable", "timeout"} }
    \cup { [kind |-> "response", code |-> c, body |-> "ok"] : c \in {400, 401, 500} }
    \cup { [kind |-> "response", code |-> 200, body |-> b] :
            b \in {"ok", "other_client", "no_client", "short", "not_json"} }

\* a verification that never compares client_id (the fault the property
\* ProviderVerification must detect)
verify_line_access_token_any_client(o) ==
    IF o.kind \in {"unreachable", "timeout"} THEN 503
    ELSE IF o.code # 200 THEN 401
    ELSE IF o.body \in {"not_json", "short", "no_client"} THEN 500
    ELSE 200

\* a verification that never looks at the status code of the response (the
\* fault the property LoginOrder must detect)
verify_line_access_token_any_status(o) ==
    IF o.kind \in {"unreachable", "timeout"} THEN 503
    ELSE IF o.body = "not_json" THEN 500
    ELSE IF o.body \in {"other_client", "no_client"} THEN 401
    ELSE IF o.body = "short" THEN 500
    ELSE 200

\* AuthService.verify_line_access_token: 200 for a LineTokenInfo, else the
\* status_code of the LineAuthError raised.  httpx.RequestError (connection
\* errors and timeouts) gives 503; response.json() and LineTokenInfo(**data)
\* raise into "except Exception", which gives 500
verify_line_access_token(o) ==
    IF o.kind \in {"unreachable", "timeout"} THEN 503
    ELSE IF o.code # 200 THEN 401
    ELSE IF o.body = "not_json" THEN 500
    ELSE IF o.body \in {"other_client", "no_client"} THEN 401
    ELSE IF o.body = "short" THEN 500
    ELSE 200

\* AuthService.get_line_user_profile: 200 for a LineUserProfile, else the
\* status_code of the LineAuthError raised (bodies: "ok" or not a profile)
get_line_user_profile(o) ==
    IF o.kind \in {"unreachable", "timeout"} THEN 503
    ELSE IF o.code # 200 THEN 401
    ELSE IF o.body # "ok" THEN 500
    ELSE 200

\* the methods class UserService defines
UserServiceMethods ==
    {"get_user_by_id", "get_user_by_line_id", "create_user_from_line_profile",
     "update_user", "delete_user", "get_all_users", "user_exists", "get_user_count",
     "get_or_create_user_from_line_profile"}

\* a lookup whose WHERE clause lost the line_user_id: the first row of the
\* table (the fault the property SameUserForAll must detect)
get_by_line_user_id_any_row(utbl, line_user_id) ==
    IF utbl = {} THEN 0
    ELSE (CHOOSE u \in utbl : \A v \in utbl : u.id <= v.id).id

\* UserRepository.get_by_line_user_id: the id of the row, 0 for None
UserRepository_get_by_line_user_id(utbl, line_user_id) ==
    IF \E u \in utbl : u.line_user_id = line_user_id
    THEN (CHOOSE u \in utbl : u.line_user_id = line_user_id).id
    ELSE 0

\* a commit into a table without the unique constraint (the fault the
\* property UniqueLineUserId must detect)
commit_user_no_constraint(utbl, seq, line_user_id) ==
    [exc |-> "", id |-> seq + 1, seq |-> seq + 1,
     tbl |-> utbl \cup {[id |-> seq + 1, line_user_id |-> line_user_id]}]

\* session.add(user); session.commit() on table users, whose column
\* line_user_id is unique: [exc, id, seq, tbl]
commit_user(utbl, seq, line_user_id) ==
    IF \E u \in utbl : u.line_user_id = line_user_id
    THEN [exc |-> "IntegrityError", id |-> 0, seq |-> seq, tbl |-> utbl]
    ELSE [exc |-> "", id |-> seq + 1, seq |-> seq + 1,
          tbl |-> utbl \cup {[id |-> seq + 1, line_user_id |-> line_user_id]}]

\* handlers that take IntegrityError with every other SQLAlchemyError (the
\* fault the property DuplicateIsConflict must detect)
create_except_generic(exc) ==
    IF exc = "UserAlreadyExistsError" THEN "UserAlreadyExistsError"
    ELSE "UserRepositoryError"

\* the except clauses of UserRepository.create: what is raised for what the
\* try block raised (each handler but the first rolls back)
create_except(exc) ==
    IF exc = "UserAlreadyExistsError" THEN "UserAlreadyExistsError"
    ELSE IF exc = "IntegrityError" THEN "UserAlreadyExistsError"
    ELSE "UserRepositoryError"

\* A worker: entry is what it runs ("login": POST /api/auth/line/callback or
\* /line/token; "provision": UserService.get_or_create_user_from_line_profile;
\* "create": UserRepository.create), pc its position, luid the LINE user id,
\* prov and vstatus the provider's answer to the token verification and its
\* outcome, pprov the provider's answer to the profile request, profiled
\* whether the profile was fetched, detect where a duplicate
\* was detected ("lookup", "commit"), raised what UserRepository.create
\* raised, res and status the result of the entry, uid the User id returned,
\* sub the subject of the JWT issued
IdleWorker ==
    [entry |-> "idle", pc |-> "idle", luid |-> "", prov |-> NoOutcome, vstatus |-> 0,
     pprov |-> NoOutcome, profiled |-> FALSE, detect |-> "none", raised |-> "",
     res |-> "", status |-> 0,
     uid |-> 0, sub |-> ""]

InitLogin ==
    /\ now = 0
    /\ users = {}
    /\ useq = 0
    /\ items = {}
    /\ iseq = 0
    /\ resp = NoResp
    /\ jtok = GarbageToken
    /\ jres = NoJres
    /\ lp = [w \in Workers |-> IdleWorker]
    /\ posts = {}
    /\ pres = NoPres
    /\ pv = NoPv
    /\ sess = Idle
    /\ mw = Idle

\* the worker after its entry returned the user user_id; the login handler
\* goes on to create_jwt_token(user.id, ...) and answers 200
Returned(l, user_id) ==
    [l EXCEPT !.pc = "done", !.res = "ok", !.uid = user_id,
              !.status = IF l.entry = "login" THEN 200 ELSE 0,
              !.sub = IF l.entry = "login" THEN create_jwt_token(user_id, now).sub
                      ELSE ""]

\* the worker after UserRepository.create raised err: the repository's caller
\* gets it; create_user_from_line_profile looks the user up again on
\* UserAlreadyExistsError and raises UserServiceError(500) otherwise
Raised(l, err) ==
    IF l.entry = "create" THEN [l EXCEPT !.pc = "done", !.raised = err, !.res = err]
    ELSE IF err = "UserAlreadyExistsError" THEN [l EXCEPT !.pc = "relookup", !.raised = err]
    ELSE [l EXCEPT !.pc = "done", !.raised = err, !.res = "UserServiceError",
                   !.status = 500]

Begin(w, entry, pc, luid) ==
    /\ lp[w].pc \in {"idle", "done"}
    /\ lp' = [lp EXCEPT ![w] = [IdleWorker EXCEPT !.entry = entry, !.pc = pc,
                                                  !.luid = luid]]
    /\ UNCHANGED <<now, users, useq, items, iseq, resp, jtok, jres, posts, pres, pv, sess, mw>>

\* a login request arrives, with an access token of LINE user luid
StartLogin(w, luid) == Begin(w, "login", "verify", luid)

\* get_or_create_user_from_line_profile is called
StartProvision(w, luid) == Begin(w, "provision", "goc_lookup", luid)

\* UserRepository.create is called
StartCreate(w, luid) == Begin(w, "create", "repo_lookup", luid)

\* authenticate_line_user: verify_line_access_token
VerifyToken(w, o) ==
    /\ lp[w].pc = "verify"
    /\ LET st == verify_line_access_token(o) IN
       lp' = [lp EXCEPT ![w] =
                IF st = 200
                THEN [@ EXCEPT !.prov = o, !.vstatus = st, !.pc = "profile"]
                ELSE [@ EXCEPT !.prov = o, !.vstatus = st, !.pc = "done",
                               !.res = "LineAuthError", !.status = st]]
    /\ UNCHANGED <<now, users, useq, items, iseq, resp, jtok, jres, posts, pres, pv, sess, mw>>

\* authenticate_line_user: get_line_user_profile
FetchProfile(w, o) ==
    /\ lp[w].pc = "profile"
    /\ LET st == get_line_user_profile(o) IN
       lp' = [lp EXCEPT ![w] =
                IF st = 200
                THEN [@ EXCEPT !.pprov = o, !.profiled = TRUE, !.pc = "user_service"]
                ELSE [@ EXCEPT !.pprov = o, !.pc = "done", !.res = "LineAuthError",
                               !.status = st]]
    /\ UNCHANGED <<now, users, useq, items, iseq, resp, jtok, jres, posts, pres, pv, sess, mw>>

\* routers/auth.py: user_service.create_or_get_user(user_data).  UserService
\* has no such method: the call raises AttributeError, which the handler's
\* "except Exception" answers with 500
CallUserService(w) ==
    /\ lp[w].pc = "user_service"
    /\ lp' = [lp EXCEPT ![w] =
                IF "create_or_get_user" \in UserServiceMethods
                THEN [@ EXCEPT !.pc = "goc_lookup"]
                ELSE [@ EXCEPT !.pc = "done", !.res = "AttributeError", !.status = 500]]
    /\ UNCHANGED <<now, users, useq, items, iseq, resp, jtok, jres, posts, pres, pv, sess, mw>>

\* a lookup by line_user_id at position pc; a hit returns the user, a miss
\* moves on to position next
LookupStep(w, pc, next) ==
    /\ lp[w].pc = pc
    /\ LET id == UserRepository_get_by_line_user_id(users, lp[w].luid) IN
       lp' = [lp EXCEPT ![w] = IF id # 0 THEN Returned(@, id) ELSE [@ EXCEPT !.pc = next]]
    /\ UNCHANGED <<now, users, useq, items, iseq, resp, jtok, jres, posts, pres, pv, sess, mw>>

\* get_or_create_user_from_line_profile: get_user_by_line_id
GetOrCreateLookup(w) == LookupStep(w, "goc_lookup", "cufp_lookup")

\* create_user_from_line_profile: get_user_by_line_id
CreateFromProfileLookup(w) == LookupStep(w, "cufp_lookup", "repo_lookup")

\* UserRepository.create: the lookup before the insert
RepoLookup(w) ==
    /\ lp[w].pc = "repo_lookup"
    /\ LET id == UserRepository_get_by_line_user_id(users, lp[w].luid) IN
       lp' = [lp EXCEPT ![w] =
                IF id # 0
                THEN Raised([@ EXCEPT !.detect = "lookup"],
                            create_except("UserAlreadyExistsError"))
                ELSE [@ EXCEPT !.pc = "repo_commit"]]
    /\ UNCHANGED <<now, users, useq, items, iseq, resp, jtok, jres, posts, pres, pv, sess, mw>>

\* UserRepository.create: add, commit, refresh.  The database may fail the
\* commit for a reason of its own (fault); otherwise the unique constraint
\* decides
RepoCommit(w, fault) ==
    /\ lp[w].pc = "repo_commit"
    /\ useq < MaxUserRows
    /\ LET c == commit_user(users, useq, lp[w].luid) IN
       IF fault
       THEN /\ lp' = [lp EXCEPT ![w] = Raised(@, create_except("OperationalError"))]
            /\ UNCHANGED <<users, useq>>
       ELSE IF c.exc # ""
       THEN /\ lp' = [lp EXCEPT ![w] = Raised([@ EXCEPT !.detect = "commit"],
                                               create_except(c.exc))]
            /\ UNCHANGED <<users, useq>>
       ELSE /\ lp' = [lp EXCEPT ![w] = Returned(@, c.id)]
            /\ users' = c.tbl
            /\ useq' = c.seq
    /\ UNCHANGED <<now, items, iseq, resp, jtok, jres, posts, pres, pv, sess, mw>>

\* create_user_from_line_profile, "except UserAlreadyExistsError": the user
\* is looked up again; none found is UserServiceError(409)
ConflictRelookup(w) ==
    /\ lp[w].pc = "relookup"
    /\ LET id == UserRepository_get_by_line_user_id(users, lp[w].luid) IN
       lp' = [lp EXCEPT ![w] =
                IF id # 0 THEN Returned(@, id)
                ELSE [@ EXCEPT !.pc = "done", !.res = "UserServiceError", !.status = 409]]
    /\ UNCHANGED <<now, users, useq, items, iseq, resp, jtok, jres, posts, pres, pv, sess, mw>>

NextLogin ==
    \/ \E w \in Workers, luid \in LineIds : StartLogin(w, luid)
    \/ \E w \in Workers, luid \in LineIds : StartProvision(w, luid)
    \/ \E w \in Workers, luid \in LineIds : StartCreate(w, luid)
    \/ \E w \in Workers, o \in ProviderOutcomes : VerifyToken(w, o)
    \/ \E w \in Workers, o \in ProviderOutcomes : FetchProfile(w, o)
    \/ \E w \in Workers : CallUserService(w)
    \/ \E w \in Workers : GetOrCreateLookup(w)
    \/ \E w \in Workers : CreateFromProfileLookup(w)
    \/ \E w \in Workers : RepoLookup(w)
    \/ \E w \in Workers, fault \in BOOLEAN : RepoCommit(w, fault)
    \/ \E w \in Workers : ConflictRelookup(w)

SpecLogin == InitLogin /\ [][NextLogin]_vars

(***************************************************************************)
(* Properties of login and user provisioning.                              *)
(***************************************************************************)
\* C1: after any sequence and interleaving of user creations, concurrent first
\* logins of one identity included, no two rows of the user store have the
\* same line_user_id.
UniqueLineUserId ==
    \A u1, u2 \in users : u1.line_user_id = u2.line_user_id => u1 = u2

\* two workers created the same identity concurrently: both passed every
\* lookup, one commit inserted the row and the other met the constraint
UniqueLineUserIdWitness ==
    \E v, w \in Workers :
        /\ v # w /\ lp[v].luid = lp[w].luid
        /\ lp[v].res = "ok" /\ lp[v].uid # 0 /\ lp[v].detect = "none"
        /\ lp[w].detect = "commit"
        /\ \E u \in users : u.id = lp[v].uid /\ u.line_user_id = lp[v].luid

\* C8: a login whose provider token verifies (and whose profile is fetched)
\* answers 200 with a JWT whose subject is the id of the User with the
\* profile's line_user_id, created first if absent.
LoginIssuesToken ==
    \A w \in Workers :
        (lp[w].entry = "login" /\ lp[w].pc = "done" /\ lp[w].vstatus = 200
         /\ lp[w].profiled) =>
            /\ lp[w].status = 200
            /\ \E u \in users : /\ u.line_user_id = lp[w].luid
                                /\ lp[w].sub = StrOfId(u.id)

\* C9: the provider token verification fails with 401 when the provider
\* answers another status than 200 or a client_id that is not the configured
\* one, and with 503 when the provider is unreachable or times out.
ProviderVerification ==
    \A w \in Workers :
        LET o == lp[w].prov IN
        /\ o.kind \in {"unreachable", "timeout"} => lp[w].vstatus = 503
        /\ (o.kind = "response" /\ o.code # 200) => lp[w].vstatus = 401
        /\ (o.kind = "response" /\ o.code = 200 /\ o.body = "other_client")
                => lp[w].vstatus = 401

\* a login was refused because the token belongs to another client
ProviderVerificationWitness ==
    \E w \in Workers :
        /\ lp[w].prov.code = 200 /\ lp[w].prov.body = "other_client"
        /\ lp[w].vstatus = 401 /\ lp[w].status = 401 /\ lp[w].pc = "done"

\* C10: UserRepository.create for a line_user_id in use raises
\* UserAlreadyExistsError, not the generic UserRepositoryError, whether the
\* pre-insert lookup or the uniqueness violation at the commit detects the
\* duplicate (and inserts nothing).
DuplicateIsConflict ==
    \A w \in Workers :
        /\ lp[w].detect # "none" => lp[w].raised = "UserAlreadyExistsError"
        /\ lp[w].raised = "UserAlreadyExistsError" => lp[w].detect # "none"
        /\ (lp[w].entry = "create" /\ lp[w].detect # "none") =>
                /\ lp[w].res = "UserAlreadyExistsError"
                /\ \E u \in users : u.line_user_id = lp[w].luid

\* a call of UserRepository.create met the uniqueness violation at its commit
\* and raised the conflict
DuplicateIsConflictWitness ==
    \E w \in Workers :
        /\ lp[w].entry = "create" /\ lp[w].pc = "done" /\ lp[w].detect = "commit"
        /\ lp[w].res = "UserAlreadyExistsError"

(***************************************************************************)
(* Further properties of the item endpoints.                               *)
(***************************************************************************)
\* the step is one request (the clock stands still) answered by endpoint op
\* with the given status
RequestStep(op, status) ==
    /\ now' = now
    /\ resp'.op = op /\ resp'.ran /\ resp'.status = status

EmptyUpdateRejected ==
    (resp.op = "update" /\ resp.ran /\ resp.data.fields = {}) =>
        /\ resp.status = 400
        /\ resp.message = "At least one field must be provided for update"

\* an update without fields of another owner's item was answered 400
EmptyUpdateRejectedWitness ==
    /\ resp.op = "update" /\ resp.ran /\ resp.data.fields = {}
    /\ resp.pre = "other" /\ resp.status = 400

(***************************************************************************)
(* Properties of the listing endpoint.                                     *)
(***************************************************************************)
\* the list request has no search term and no price bound
PlainRequest(request) ==
    request.search = NullText /\ request.min_price = -1 /\ request.max_price = -1

\* the rows the caller of the last request owns
OwnedByCaller == {r \in items : r.user_id = resp.caller}

\* row x may come before row y in the order the request asks for
MayPrecede(x, y, request, nulls_small) ==
    IF request.sort_order = "desc"
    THEN ~KeyLess(x, y, request.sort_by, nulls_small)
    ELSE ~KeyLess(y, x, request.sort_by, nulls_small)

\* C13: a plain list call with page p and page size s for a caller who owns n
\* rows returns the caller's rows at positions (p-1)*s+1 .. min(p*s, n) of the
\* requested order: min(s, n - (p-1)*s) distinct rows of the caller (none when
\* (p-1)*s >= n), in order, with exactly (p-1)*s of the caller's other rows
\* sorting before them and the rest after them.
PageOfSortedRows ==
    (resp.op = "list" /\ resp.status = 200 /\ PlainRequest(resp.req)) =>
        LET request == resp.req
            skip == (request.page - 1) * request.page_size
            n == Cardinality(OwnedByCaller)
            rows == resp.rows
            onpage == {rows[i] : i \in 1..Len(rows)}
            others == OwnedByCaller \ onpage
        IN /\ Len(rows) = IF skip >= n THEN 0
                           ELSE IF n - skip < request.page_size THEN n - skip
                           ELSE request.page_size
           /\ onpage \subseteq OwnedByCaller
           /\ Cardinality(onpage) = Len(rows)
           /\ \E nulls_small \in BOOLEAN, before \in SUBSET others :
                 /\ Cardinality(before) = IF skip < n THEN skip ELSE n
                 /\ \A i, j \in 1..Len(rows) :
                       i < j => MayPrecede(rows[i], rows[j], request, nulls_small)
                 /\ \A b \in before, r \in onpage : MayPrecede(b, r, request, nulls_small)
                 /\ \A r \in onpage, a \in others \ before :
                       MayPrecede(r, a, request, nulls_small)
                 /\ \A b \in before, a \in others \ before :
                       MayPrecede(b, a, request, nulls_small)

\* page 2 of size 1 over two rows with different names, sorted by name:
\* the one row returned is the second of the order
PageOfSortedRowsWitness ==
    /\ resp.op = "list" /\ resp.status = 200 /\ PlainRequest(resp.req)
    /\ resp.req.page = 2 /\ resp.req.page_size = 1
    /\ resp.req.sort_by = "name" /\ resp.req.sort_order = "asc"
    /\ Cardinality(OwnedByCaller) = 2 /\ Len(resp.rows) = 1
    /\ \E r \in OwnedByCaller : TextLess(r.name, resp.rows[1].name)

\* C14: every plain list response reports as total the number of rows the
\* caller owns at the time of the call, and as total_pages the least number
\* of pages of page_size rows that hold total rows (ceil(total / page_size)).
ExactTotal ==
    (resp.op = "list" /\ resp.status = 200 /\ PlainRequest(resp.req)) =>
        /\ resp.total = Cardinality(OwnedByCaller)
        /\ resp.total_pages >= 0
        /\ resp.total_pages * resp.req.page_size >= resp.total
        /\ (resp.total_pages - 1) * resp.req.page_size < resp.total

\* a plain listing of page size 2 for a caller who owns one row, while the
\* store holds a row of another owner: total 1 on 1 page
ExactTotalWitness ==
    /\ resp.op = "list" /\ resp.status = 200 /\ PlainRequest(resp.req)
    /\ resp.req.page_size = 2 /\ resp.total = 1 /\ resp.total_pages = 1
    /\ \E r \in items : r.user_id # resp.caller

\* C15: when a delete of item i by its owner has succeeded (204), the row is
\* gone, and the owner's next request finds it gone: a fetch of i by id
\* answers 404, a listing or search returns no row with id i, and the count
\* is the number of the owner's rows other than i.
DeletedItemIsGone ==
    [][ (resp.op = "delete" /\ resp.status = 204) =>
          LET i == resp.item_id
              u == resp.caller
              same_caller == now' = now /\ resp'.ran /\ resp'.caller = u
          IN /\ ~(\E r \in items : r.id = i)
             /\ (same_caller /\ resp'.op = "get" /\ resp'.item_id = i) =>
                    resp'.status = 404
             /\ (same_caller /\ resp'.op \in {"list", "search"}) =>
                    \A k \in 1..Len(resp'.rows) : resp'.rows[k].id # i
             /\ (same_caller /\ resp'.op = "count") =>
                    resp'.total =
                        Cardinality({r \in items' : r.user_id = u /\ r.id # i}) ]_vars

\* the fetch of an id whose row was created and then deleted by its owner was
\* answered 404, while the caller still owns another row
DeletedItemIsGoneWitness ==
    /\ resp.op = "get" /\ resp.ran /\ resp.status = 404
    /\ resp.item_id <= iseq
    /\ \E r \in items : r.user_id = resp.caller

\* C16: creating an item for an owner id that matches no row of users fails
\* with status 404 (owner not found) and inserts no item.
CreateForMissingOwner ==
    (resp.op = "create" /\ resp.ran /\ ~UserRepository_get_by_id(users, resp.caller)) =>
        /\ resp.status = 404
        /\ resp.item = NoRow
        /\ ~(\E r \in items : r.user_id = resp.caller)

(***************************************************************************)
(* Properties of the resolution of a token to a user.                      *)
(***************************************************************************)
\* C17: POST /api/auth/verify with "Authorization: Bearer <jwt>", the token
\* signed under the secret, unexpired and of an existing user, answers 200
\* with valid = true, the record of that user and the expiry of the token.
VerifyReturnsUser ==
    (resp.op = "verify" /\ resp.cred /\ UserRepository_get_by_id(users, resp.caller)) =>
        /\ resp.status = 200
        /\ resp.token_valid
        /\ resp.user \in users /\ resp.user.id = resp.caller
        /\ resp.expires_at = resp.token_exp

\* C18: wherever a token is resolved to a user record (POST /api/auth/verify,
\* the dependency get_current_user), a token signed under the secret and
\* unexpired whose subject matches no row of users is answered 404.
MissingUserIs404 ==
    (resp.op \in {"verify", "current_user"} /\ resp.cred
        /\ ~UserRepository_get_by_id(users, resp.caller)) =>
        resp.status = 404

(***************************************************************************)
(* SpecPost: posts are created and updated by the users 1 and 2 and by     *)
(* user 3, who has no row.                                                 *)
(***************************************************************************)
NextPost ==
    \/ \E u \in UserIds, location \in LocationInputs : CreatePost(u, location)
    \/ \E u \in UserIds, post_id \in 1..MaxPosts, location \in LocationInputs :
            UpdatePost(u, post_id, {"location"}, location)
    \/ \E u \in UserIds, post_id \in 1..MaxPosts : UpdatePost(u, post_id, {}, NullText)

SpecPost == Init /\ [][NextPost]_vars

\* C19: every stored location is lower case: it matches ^[0-9a-z]+$ and has
\* length 1 to 12.
StoredLocationsNormalized ==
    \A p \in posts :
        p.location # NullText =>
            /\ MatchesGeohash(p.location)
            /\ Len(p.location) >= 1 /\ Len(p.location) <= MaxGeohashLen

(***************************************************************************)
(* SpecPrice: prices are submitted to the creation and to the update of    *)
(* items.                                                                  *)
(***************************************************************************)
NextPrice ==
    \/ \E v \in PriceInputs, normalizes \in BOOLEAN : SubmitPrice("create", v, normalizes)
    \/ \E v \in PriceInputs, normalizes \in BOOLEAN : SubmitPrice("update", v, normalizes)

SpecPrice == Init /\ [][NextPrice]_vars

\* the fractional digits of the literal
FractionalDigits(d) == IF d.exp < 0 THEN 0 - d.exp ELSE 0

\* C20: a create or update is accepted with respect to its price exactly when
\* 0 < price <= 1,000,000.00 and the price has at most two fractional
\* digits; 0, 1000000.01 and 10.999 are rejected.
PriceAcceptance ==
    pv.op # "none" =>
        /\ pv.accepted <=>
              /\ pv.price.coef > 0
              /\ \/ IntPart(pv.price) < 1000000
                 \/ IntPart(pv.price) = 1000000 /\ FracPart(pv.price) = 0
              /\ FractionalDigits(pv.price) <= 2
        /\ pv.price \in {Dec(0, 0), Dec(100000001, -2), Dec(10999, -3)} => ~pv.accepted

\* 1000000.00 was accepted
PriceAcceptanceWitness ==
    /\ pv.op = "create" /\ pv.accepted
    /\ pv.price = Dec(100000000, -2)

(***************************************************************************)
(* Two pages of one listing.                                               *)
(***************************************************************************)
\* the rows of a result list, as a set
RowSet(rows) == {rows[i] : i \in 1..Len(rows)}

\* this step is a plain listing that follows a plain listing of the same
\* caller, page size and sort at another page number, over the same store
NextPageOfSameListing ==
    /\ resp.op = "list" /\ resp.status = 200 /\ PlainRequest(resp.req)
    /\ resp'.op = "list" /\ resp'.status = 200 /\ PlainRequest(resp'.req)
    /\ items' = items /\ resp'.caller = resp.caller
    /\ resp'.req.page_size = resp.req.page_size
    /\ resp'.req.sort_by = resp.req.sort_by
    /\ resp'.req.sort_order = resp.req.sort_order
    /\ resp'.req.page # resp.req.page

\* C21: over one store state, with one owner, page size and sort, the pages
\* at two distinct page numbers share no row, and when the listing has two
\* pages, pages 1 and 2 together hold each of the owner's rows exactly once.
PagesPartitionRows ==
    [][NextPageOfSameListing =>
          /\ RowSet(resp.rows) \cap RowSet(resp'.rows) = {}
          /\ (resp.total_pages = 2 /\ {resp.req.page, resp'.req.page} = {1, 2}) =>
                /\ RowSet(resp.rows) \cup RowSet(resp'.rows) = OwnedByCaller
                /\ Len(resp.rows) + Len(resp'.rows) = Cardinality(OwnedByCaller)]_vars

(***************************************************************************)
(* The order of a login attempt.                                           *)
(***************************************************************************)
\* the provider answered 200 with what the caller needs
ProviderSaidYes(o) == o.kind = "response" /\ o.code = 200 /\ o.body = "ok"

\* the positions of a login past the token verification
PastVerification ==
    {"profile", "user_service", "goc_lookup", "cufp_lookup", "repo_lookup",
     "repo_commit", "relookup"}

\* C22: in a login attempt the profile is requested only after the provider
\* verified the token (status 200, our client_id), the user service is
\* reached, a User row created and a JWT issued only after the profile fetch
\* succeeded too; a login whose verification or profile fetch fails creates
\* no User and returns no token.
LoginOrder ==
    [][\A w \in Workers : lp'[w].entry = "login" =>
          /\ (lp'[w].pc \in PastVerification \/ lp'[w].pprov # NoOutcome
               \/ lp'[w].profiled)
                => ProviderSaidYes(lp'[w].prov)
          /\ (lp'[w].pc \in PastVerification \ {"profile"} \/ lp'[w].uid # 0
               \/ lp'[w].sub # "" \/ lp'[w].status = 200)
                => (lp'[w].profiled /\ ProviderSaidYes(lp'[w].pprov))
          /\ (lp[w].pc \in {"verify", "profile"} /\ lp'[w] # lp[w])
                => users' = users
          /\ (lp'[w] # lp[w] /\ users' # users)
                => (lp[w].profiled /\ ProviderSaidYes(lp[w].pprov))
          /\ (lp'[w].pc = "done" /\ lp'[w].res = "LineAuthError")
                => (lp'[w].uid = 0 /\ lp'[w].sub = "" /\ lp'[w].status # 200)]_vars

\* a login whose token the provider verified and whose profile request the
\* provider refused: it ended with 401, no token and no user, and the store
\* holds no User of that identity
LoginOrderWitness ==
    \E w \in Workers :
        /\ lp[w].entry = "login" /\ lp[w].pc = "done"
        /\ ProviderSaidYes(lp[w].prov) /\ lp[w].vstatus = 200
        /\ lp[w].pprov.kind = "response" /\ lp[w].pprov.code = 401
        /\ ~lp[w].profiled /\ lp[w].status = 401
        /\ lp[w].uid = 0 /\ lp[w].sub = ""
        /\ ~\E u \in users : u.line_user_id = lp[w].luid

(***************************************************************************)
(* Concurrent first logins of one identity.                                *)
(***************************************************************************)
\* worker w ran the provisioning of a user (from a login or called directly)
\* and it returned a user
Provisioned(w) ==
    /\ lp[w].entry \in {"login", "provision"}
    /\ lp[w].pc = "done" /\ lp[w].res = "ok"

\* C23: whatever the interleaving of the provisioning attempts for one
\* line_user_id, first logins that run concurrently included, every attempt
\* that returns a user returns the id of the one User row of that
\* line_user_id: any two of them return the same id.
SameUserForAll ==
    \A v, w \in Workers :
        (Provisioned(v) /\ Provisioned(w) /\ lp[v].luid = lp[w].luid) =>
            /\ lp[v].uid = lp[w].uid
            /\ \E u \in users : u.id = lp[v].uid /\ u.line_user_id = lp[v].luid

\* two provisioning attempts for one identity that both missed every lookup:
\* one inserted the row, the other met the unique constraint at its commit,
\* looked the user up again, and both returned the same id
SameUserForAllWitness ==
    \E v, w \in Workers :
        /\ v # w /\ Provisioned(v) /\ Provisioned(w) /\ lp[v].luid = lp[w].luid
        /\ lp[v].detect = "none" /\ lp[w].detect = "commit"
        /\ lp[w].raised = "UserAlreadyExistsError"
        /\ lp[v].uid = lp[w].uid /\ lp[v].uid # 0

(***************************************************************************)
(* Rejected writes.                                                        *)
(***************************************************************************)
\* C24: an item create, update or delete that is rejected with 400
\* (validation), 403 (access denied) or 404 (not found) leaves the items
\* table, and the id sequence, as they were.
RejectedLeavesStore ==
    [][\A op \in {"create", "update", "delete"}, status \in {400, 403, 404} :
          RequestStep(op, status) => (items' = items /\ iseq' = iseq)]_vars

\* an update of another owner's row, with valid data that would change the
\* row, was answered 403 and the row is as the data would not have it
RejectedLeavesStoreWitness ==
    /\ resp.op = "update" /\ resp.ran /\ resp.status = 403 /\ resp.pre = "other"
    /\ "name" \in resp.data.fields
    /\ \E r \in items : /\ r.id = resp.item_id /\ r.user_id # resp.caller
                         /\ r.name # resp.data.name

(***************************************************************************)
(* SpecMiddleware: AuthenticationContextMiddleware.dispatch.  mw is the    *)
(* request as the middleware left it: its Authorization header, the time,  *)
(* request.state (user_id 0 for None), whether call_next was called and    *)
(* the exception that left dispatch ("" for none).                         *)
(***************************************************************************)
NoMw ==
    [h |-> NoHeader, at |-> 0, user_id |-> 0, is_authenticated |-> FALSE,
     called_next |-> FALSE, raised |-> ""]

\* every Authorization header of the model
MiddlewareHeaders ==
    {NoHeader}
    \cup { [present |-> TRUE, nparts |-> n, scheme |-> "Bearer", token |-> GarbageToken] :
             n \in {1, 3} }
    \cup { HeaderOf(s, tk) : s \in {"Bearer", "bearer", "Basic"}, tk \in Tokens }

\* an except clause that names JWTError alone (the fault the property
\* MiddlewarePassesOn must detect)
dispatch_except_jwt_error_only(exc) == exc = "JWTError"

\* "except (JWTError, AuthenticationError, ValueError)": the exception is
\* caught
dispatch_except(exc) == exc \in {"JWTError", "AuthenticationError", "ValueError"}

\* what the try block of dispatch raises ("" for nothing):
\* extract_token_from_header and verify_jwt_token raise JWTError, whatever the
\* status they give it, and int(payload.sub) raises ValueError
dispatch_try(h, t) ==
    IF ~extract_token_from_header(h).ok THEN "JWTError"
    ELSE IF ~verify_jwt_token(h.token, t).ok THEN "JWTError"
    ELSE IF IntOfSub(verify_jwt_token(h.token, t).sub) = 0 THEN "ValueError"
    ELSE ""

\* AuthenticationContextMiddleware.dispatch: request.state starts anonymous;
\* with a header, the try block fills it in; an exception the except clause
\* does not catch leaves dispatch before call_next
AuthenticationContextMiddleware_dispatch(h, t) ==
    LET anonymous == [NoMw EXCEPT !.h = h, !.at = t, !.called_next = TRUE] IN
    IF ~h.present THEN anonymous
    ELSE IF dispatch_try(h, t) = ""
    THEN [anonymous EXCEPT !.user_id = IntOfSub(verify_jwt_token(h.token, t).sub),
                           !.is_authenticated = TRUE]
    ELSE IF dispatch_except(dispatch_try(h, t)) THEN anonymous
    ELSE [anonymous EXCEPT !.called_next = FALSE, !.raised = dispatch_try(h, t)]

InitMiddleware ==
    /\ now = 0
    /\ users = ItemUsers
    /\ useq = 2
    /\ items = {}
    /\ iseq = 0
    /\ resp = NoResp
    /\ jtok = GarbageToken
    /\ jres = NoJres
    /\ lp = Idle
    /\ posts = {}
    /\ pres = NoPres
    /\ pv = NoPv
    /\ sess = Idle
    /\ mw = NoMw

\* a request with header h reaches the middleware
Dispatch(h) ==
    /\ mw' = AuthenticationContextMiddleware_dispatch(h, now)
    /\ UNCHANGED <<now, users, useq, items, iseq, resp, jtok, jres, lp, posts, pres,
                   pv, sess>>

NextMiddleware ==
    \/ Tick
    \/ \E h \in MiddlewareHeaders : Dispatch(h)

SpecMiddleware == InitMiddleware /\ [][NextMiddleware]_vars

\* C28: whatever the Authorization header of a request, the middleware calls
\* the next handler and no exception leaves it; when the header is missing
\* or does not carry a token that verifies (signed, unexpired, complete, with
\* an integer subject), the request goes on with user_id None and
\* is_authenticated false, and otherwise with the subject as user_id and
\* is_authenticated true.
MiddlewarePassesOn ==
    mw # NoMw =>
        /\ mw.called_next /\ mw.raised = ""
        /\ IF IssuedCredential(mw.h, mw.at)
           THEN mw.is_authenticated /\ mw.user_id = IntOfSub(mw.h.token.sub)
           ELSE ~mw.is_authenticated /\ mw.user_id = 0

\* a request whose token is signed and unexpired and whose subject is no
\* integer went on to the next handler, anonymous
MiddlewarePassesOnWitness ==
    /\ mw.h.present /\ mw.h.token.sig = "good" /\ mw.h.token.exp >= mw.at
    /\ mw.h.token.complete /\ mw.h.token.sub = "x" /\ mw.h.scheme = "Bearer"
    /\ mw.called_next /\ ~mw.is_authenticated /\ mw.user_id = 0

(***************************************************************************)
(* SpecSession: requests with one database session each.  The database is  *)
(* db = [items, iseq, users, useq]; a session holds the changes added to   *)
(* it and not yet committed (pending) and the calls of rollback and close  *)
(* made on it (log).  A change is [table, kind, item_old, item_new,        *)
(* user_old, user_new].  A repository call meets a database fault at its   *)
(* SELECT ("select"), at session.add ("add"), at session.commit before the *)
(* change is durable ("commit"), at session.refresh after it is            *)
(* ("refresh"), or none.                                                   *)
(***************************************************************************)
\* pc: "idle", "yielded" (the handler has the session), "checked"
\* (ItemService.create_item found the owner), "returned", "raised" (how the
\* handler ended), "released"; op, fault, err: the last repository call, its
\* fault and what it raised; owner: the user_id of the create_item under
\* way; wrote: the change of the call became durable; raised: the handler
\* ended with an exception.  A released session keeps its log, its pending
\* changes and how the handler ended.
NoSession ==
    [pc |-> "idle", pending |-> {}, log |-> << >>, op |-> "none", fault |-> "none",
     err |-> "", owner |-> 0, wrote |-> FALSE, raised |-> FALSE]

WriteFaults == {"none", "select", "add", "commit", "refresh"}

Change(table, kind, item_old, item_new, user_old, user_new) ==
    [table |-> table, kind |-> kind, item_old |-> item_old, item_new |-> item_new,
     user_old |-> user_old, user_new |-> user_new]

\* session.add / session.delete: the change waits in the session
Session_add(s, ch) == [s EXCEPT !.pending = @ \cup {ch}]

\* session.rollback(): the pending changes are dropped
Session_rollback(s) == [s EXCEPT !.pending = {}, !.log = Append(@, "rollback")]

\* session.close(): the connection goes back to the pool, pending changes
\* are dropped
Session_close(s) == [s EXCEPT !.pending = {}, !.log = Append(@, "close")]

\* the tables once the pending changes are durable
Flushed(db, pending) ==
    [db EXCEPT
        !.items = (@ \ {ch.item_old : ch \in {c \in pending : c.table = "items"}})
                  \cup {ch.item_new : ch \in {c \in pending :
                                                c.table = "items" /\ c.kind # "delete"}},
        !.iseq = @ + Cardinality({c \in pending : c.table = "items"
                                                   /\ c.kind = "insert"}),
        !.users = (@ \ {ch.user_old : ch \in {c \in pending : c.table = "users"}})
                  \cup {ch.user_new : ch \in {c \in pending :
                                                c.table = "users" /\ c.kind # "delete"}},
        !.useq = @ + Cardinality({c \in pending : c.table = "users"
                                                   /\ c.kind = "insert"})]

\* the flush of change ch fails with IntegrityError: users.line_user_id is
\* unique; items.name and items.user_id are NOT NULL, and the unit of work
\* sets the user_id of the items of a deleted user (relationship User.items,
\* no delete cascade) to NULL; items.user_id references users.id, which the
\* database checks when it enforces foreign keys (foreign_keys)
ConstraintViolated(db, ch, foreign_keys) ==
    CASE ch.table = "users" /\ ch.kind = "insert" ->
            \E u \in db.users : u.line_user_id = ch.user_new.line_user_id
      [] ch.table = "users" /\ ch.kind = "delete" ->
            \E r \in db.items : r.user_id = ch.user_old.id
      [] ch.table = "items" /\ ch.kind = "insert" ->
            foreign_keys /\ ~(\E u \in db.users : u.id = ch.item_new.user_id)
      [] ch.table = "items" /\ ch.kind = "update" -> ch.item_new.name = NullText
      [] OTHER -> FALSE

\* an except clause without its rollback (the fault the property
\* FailedWriteRolledBack must detect)
write_except_without_rollback(s) == s

\* "except SQLAlchemyError: self.session.rollback()" of the write methods
write_except(s) == Session_rollback(s)

\* fault: the fault that struck, "none" when the call met none
WriteResult(err, db, s, wrote, fault) ==
    [err |-> err, db |-> db, sess |-> s, wrote |-> wrote, fault |-> fault]

\* session.add(x) (or session.delete(x)); session.commit(); and, when
\* refreshes, session.refresh(x), inside the try block of a write method:
\* the exception class raised into the except clauses, after their rollback
Write(s, db, ch, refreshes, fault, foreign_keys) ==
    IF fault = "add"
    THEN WriteResult("SQLAlchemyError", db, write_except(s), FALSE, "add")
    ELSE IF ConstraintViolated(db, ch, foreign_keys)
    THEN WriteResult("IntegrityError", db, write_except(Session_add(s, ch)), FALSE,
                     "none")
    ELSE IF fault = "commit"
    THEN WriteResult("SQLAlchemyError", db, write_except(Session_add(s, ch)), FALSE,
                     "commit")
    ELSE IF fault = "refresh" /\ refreshes
    THEN WriteResult("SQLAlchemyError", Flushed(db, Session_add(s, ch).pending),
                     write_except(s), TRUE, "refresh")
    ELSE WriteResult("", Flushed(db, Session_add(s, ch).pending), s, TRUE, "none")

\* ItemRepository.create
ItemRepository_create_tx(s, db, data, user_id, t, fault, foreign_keys) ==
    Write(s, db,
          Change("items", "insert", NoRow,
                 ItemRepository_create(db.iseq, data, user_id, t), NoUser, NoUser),
          TRUE, fault, foreign_keys)

\* ItemRepository.update: a fault of the SELECT comes out of
\* get_by_id_or_raise as SQLAlchemyError, into the except clause of update
ItemRepository_update_tx(s, db, item_id, user_id, data, t, fault) ==
    LET g == ItemRepository_get_by_id_or_raise(db.items, item_id, user_id) IN
    IF fault = "select"
    THEN WriteResult("SQLAlchemyError", db, write_except(s), FALSE, "select")
    ELSE IF g.err # "" THEN WriteResult(g.err, db, s, FALSE, "none")
    ELSE Write(s, db,
               Change("items", "update", g.item, ApplyUpdate(g.item, data, t),
                      NoUser, NoUser),
               TRUE, fault, TRUE)

\* ItemRepository.delete ("False": the method returned False)
ItemRepository_delete_tx(s, db, item_id, user_id, fault) ==
    LET item == ItemRepository_get_by_id(db.items, item_id, user_id) IN
    IF fault = "select"
    THEN WriteResult("SQLAlchemyError", db, write_except(s), FALSE, "select")
    ELSE IF item = NoRow
    THEN IF \E r \in db.items : r.id = item_id
         THEN WriteResult("ItemAccessDeniedError", db, s, FALSE, "none")
         ELSE WriteResult("False", db, s, FALSE, "none")
    ELSE Write(s, db, Change("items", "delete", item, NoRow, NoUser, NoUser),
               FALSE, fault, TRUE)

\* UserRepository.create: get_by_line_user_id turns a fault of its SELECT
\* into UserRepositoryError, which no except clause of create catches;
\* IntegrityError becomes UserAlreadyExistsError and any other
\* SQLAlchemyError UserRepositoryError
UserRepository_create_tx(s, db, line_user_id, fault) ==
    IF fault = "select" THEN WriteResult("UserRepositoryError", db, s, FALSE, "select")
    ELSE IF UserRepository_get_by_line_user_id(db.users, line_user_id) # 0
    THEN WriteResult("UserAlreadyExistsError", db, s, FALSE, "none")
    ELSE LET r == Write(s, db,
                        Change("users", "insert", NoRow, NoRow, NoUser,
                               [id |-> db.useq + 1, line_user_id |-> line_user_id]),
                        TRUE, fault, TRUE)
         IN [r EXCEPT !.err = IF @ = "" THEN "" ELSE create_except(@)]

\* UserRepository.delete ("False": the method returned False)
UserRepository_delete_tx(s, db, user_id, fault) ==
    IF fault = "select" THEN WriteResult("UserRepositoryError", db, s, FALSE, "select")
    ELSE IF ~(\E u \in db.users : u.id = user_id)
    THEN WriteResult("False", db, s, FALSE, "none")
    ELSE LET r == Write(s, db,
                        Change("users", "delete", NoRow, NoRow,
                               CHOOSE u \in db.users : u.id = user_id, NoUser),
                        FALSE, fault, TRUE)
         IN [r EXCEPT !.err = IF @ = "" THEN "" ELSE "UserRepositoryError"]

\* a session factory that closes the session on a normal return only (the
\* fault the property SessionReleased must detect)
get_session_exit_without_try(s, raised) == IF raised THEN s ELSE Session_close(s)

\* get_session after its yield: "except Exception: session.rollback();
\* raise", "finally: session.close()", and the exit of "with Session(engine)",
\* which closes once more
get_session_exit(s, raised) ==
    Session_close(Session_close(IF raised THEN Session_rollback(s) ELSE s))

InitSession ==
    /\ now = 0
    /\ users = ItemUsers
    /\ useq = 2
    /\ items = {}
    /\ iseq = 0
    /\ resp = NoResp
    /\ jtok = GarbageToken
    /\ jres = NoJres
    /\ lp = Idle
    /\ posts = {}
    /\ pres = NoPres
    /\ pv = NoPv
    /\ sess = [w \in Workers |-> NoSession]
    /\ mw = Idle

Db == [items |-> items, iseq |-> iseq, users |-> users, useq |-> useq]

\* the body and the update data of the requests of SpecSession
SessionBody == [name |-> <<"a">>, description |-> NullText, price |-> 1]
SessionUpdate == [fields |-> {"name"}, name |-> <<"b">>, description |-> NullText,
                  price |-> 0]

\* the session of a request after its repository call gave result r: the
\* handler returns what the call returned and raises what it raised
AfterCall(op, r) ==
    [r.sess EXCEPT !.op = op, !.fault = r.fault, !.err = r.err, !.wrote = r.wrote,
                   !.pc = IF r.err \in {"", "False"} THEN "returned" ELSE "raised",
                   !.raised = r.err \notin {"", "False"}]

\* request w calls a repository method that gives result r
Call(w, op, r) ==
    /\ sess' = [sess EXCEPT ![w] = AfterCall(op, r)]
    /\ items' = r.db.items
    /\ iseq' = r.db.iseq
    /\ users' = r.db.users
    /\ useq' = r.db.useq
    /\ UNCHANGED <<now, resp, jtok, jres, lp, posts, pres, pv, mw>>

\* a request arrives: Depends(get_session) runs get_session up to its yield
AcquireSession(w) ==
    /\ sess[w].pc \in {"idle", "released"}
    /\ sess' = [sess EXCEPT ![w] = [NoSession EXCEPT !.pc = "yielded"]]
    /\ UNCHANGED <<now, users, useq, items, iseq, resp, jtok, jres, lp, posts, pres,
                   pv, mw>>

\* ItemService.create_item: user_repository.get_by_id(user_id); no user is
\* ItemServiceError
CheckOwner(w, user_id) ==
    /\ sess[w].pc = "yielded"
    /\ sess' = [sess EXCEPT ![w] =
                  IF UserRepository_get_by_id(users, user_id)
                  THEN [@ EXCEPT !.pc = "checked", !.owner = user_id]
                  ELSE [@ EXCEPT !.pc = "raised", !.raised = TRUE, !.op = "create_item",
                                 !.err = "ItemServiceError"]]
    /\ UNCHANGED <<now, users, useq, items, iseq, resp, jtok, jres, lp, posts, pres,
                   pv, mw>>

\* ItemService.create_item: item_repository.create(item_data, user_id)
InsertItem(w, fault, foreign_keys) ==
    /\ sess[w].pc = "checked"
    /\ iseq < MaxItems
    /\ Call(w, "create_item",
            ItemRepository_create_tx(sess[w], Db, SessionBody, sess[w].owner, now,
                                     fault, foreign_keys))

\* ItemRepository.update
UpdateItemCall(w, item_id, user_id, fault) ==
    /\ sess[w].pc = "yielded"
    /\ Call(w, "update_item",
            ItemRepository_update_tx(sess[w], Db, item_id, user_id, SessionUpdate, now,
                                     fault))

\* ItemRepository.delete
DeleteItemCall(w, item_id, user_id, fault) ==
    /\ sess[w].pc = "yielded"
    /\ Call(w, "delete_item",
            ItemRepository_delete_tx(sess[w], Db, item_id, user_id, fault))

\* UserRepository.create
CreateUserCall(w, line_user_id, fault) ==
    /\ sess[w].pc = "yielded"
    /\ useq < MaxUserRows
    /\ Call(w, "create_user",
            UserRepository_create_tx(sess[w], Db, line_user_id, fault))

\* UserRepository.delete
DeleteUserCall(w, user_id, fault) ==
    /\ sess[w].pc = "yielded"
    /\ Call(w, "delete_user",
            UserRepository_delete_tx(sess[w], Db, user_id, fault))

\* a handler that writes nothing returns, or raises (an HTTPException, say)
HandlerEnds(w, raises) ==
    /\ sess[w].pc = "yielded"
    /\ sess' = [sess EXCEPT ![w] =
                  [@ EXCEPT !.pc = IF raises THEN "raised" ELSE "returned",
                            !.raised = raises]]
    /\ UNCHANGED <<now, users, useq, items, iseq, resp, jtok, jres, lp, posts, pres,
                   pv, mw>>

\* the request ends: get_session resumes after its yield
ReleaseSession(w) ==
    /\ sess[w].pc \in {"returned", "raised"}
    /\ sess' = [sess EXCEPT ![w] =
                  LET s == get_session_exit(sess[w], sess[w].raised) IN
                  [NoSession EXCEPT !.pc = "released", !.raised = s.raised,
                                    !.log = s.log, !.pending = s.pending]]
    /\ UNCHANGED <<now, users, useq, items, iseq, resp, jtok, jres, lp, posts, pres,
                   pv, mw>>

NextSession ==
    \/ \E w \in Workers : AcquireSession(w)
    \/ \E w \in Workers, user_id \in 1..MaxUserRows : CheckOwner(w, user_id)
    \/ \E w \in Workers, fault \in WriteFaults \ {"select"}, foreign_keys \in BOOLEAN :
            InsertItem(w, fault, foreign_keys)
    \/ \E w \in Workers, item_id \in ItemIds, user_id \in {1, 2}, fault \in WriteFaults :
            UpdateItemCall(w, item_id, user_id, fault)
    \/ \E w \in Workers, item_id \in ItemIds, user_id \in {1, 2}, fault \in WriteFaults :
            DeleteItemCall(w, item_id, user_id, fault)
    \/ \E w \in Workers, line_user_id \in {"U1", "U3"}, fault \in WriteFaults :
            CreateUserCall(w, line_user_id, fault)
    \/ \E w \in Workers, user_id \in 1..MaxUserRows, fault \in WriteFaults :
            DeleteUserCall(w, user_id, fault)
    \/ \E w \in Workers, raises \in BOOLEAN : HandlerEnds(w, raises)
    \/ \E w \in Workers : ReleaseSession(w)

SpecSession == InitSession /\ [][NextSession]_vars

(***************************************************************************)
(* Properties of the repository writes and of the session.                 *)
(***************************************************************************)
\* the last repository call of session s met a database-layer exception: a
\* fault struck, or the database refused the change (a constraint)
DbException(s) ==
    \/ s.fault # "none"
    \/ s.err = "IntegrityError"
    \/ s.op = "delete_user" /\ s.err = "UserRepositoryError"

\* the step made the whole change of the call of request w durable, and
\* nothing else
WholeChange(w) ==
    CASE sess'[w].op = "create_item" ->
            /\ users' = users
            /\ \E r \in items' \ items :
                  /\ items' = items \cup {r}
                  /\ r.name = SessionBody.name /\ r.price = SessionBody.price
                  /\ r.description = SessionBody.description
                  /\ r.user_id = sess[w].owner
      [] sess'[w].op = "update_item" ->
            /\ users' = users
            /\ \E old \in items, new \in items' :
                  /\ items' = (items \ {old}) \cup {new}
                  /\ new = [old EXCEPT !.name = SessionUpdate.name, !.updated_at = now]
      [] sess'[w].op = "create_user" ->
            /\ items' = items
            /\ \E u \in users' \ users : users' = users \cup {u}
      [] OTHER -> FALSE

ItemsHaveOwners == \A r \in items : \E u \in users : u.id = r.user_id

\* the position of the first "close" in the log of session s, 0 when the
\* session was never closed
FirstClose(s) ==
    IF \E i \in 1..Len(s.log) : s.log[i] = "close"
    THEN CHOOSE i \in 1..Len(s.log) :
            s.log[i] = "close" /\ \A j \in 1..(i - 1) : s.log[j] # "close"
    ELSE 0

\* C29: a request that acquired a session leaves the handler only through
\* the exit of get_session, after which the session is closed and holds no
\* pending change, whether the handler returned or raised; when the handler
\* raised, the session was rolled back immediately before its first close.
SessionReleased ==
    [][\A w \in Workers :
          (sess[w].pc \in {"returned", "raised"} /\ sess'[w] # sess[w]) =>
              /\ sess'[w].pc = "released"
              /\ sess'[w].raised = (sess[w].pc = "raised")
              /\ FirstClose(sess'[w]) > 0
              /\ sess'[w].pending = {}
              /\ sess'[w].raised =>
                    /\ FirstClose(sess'[w]) > 1
                    /\ sess'[w].log[FirstClose(sess'[w]) - 1] = "rollback"
              /\ sess[w].pc = "returned" =>
                    sess'[w].log = sess[w].log \o <<"close", "close">>]_vars

\* two requests were released at the end: one whose handler raised without
\* touching the database, rolled back and then closed, and one whose insert
\* succeeded, closed without a rollback
SessionReleasedWitness ==
    \E w, v \in Workers :
        /\ sess[w].pc = "released" /\ sess[w].raised
        /\ sess[w].log = <<"rollback", "close", "close">>
        /\ sess[v].pc = "released" /\ ~sess[v].raised
        /\ sess[v].log = <<"close", "close">>
        /\ items # {}

\* the message of generic_exception_handler, which carries no text of the
\* exception it handles
GenericInternalError == "Internal server error"

\* C27: no error body carries the text of an internal exception: every
\* response with status 500 has the generic internal-error message and
\* nothing more.
NoExceptionTextInBody == resp.status = 500 => resp.message = GenericInternalError

\* the rows of the caller of the response under way that match its query
MatchingRows ==
    {r \in items : /\ r.user_id = resp'.caller
                   /\ \/ ColumnLike(r.name, resp'.req.search)
                      \/ ColumnLike(r.description, resp'.req.search)}

\* C30: the total a search reports never exceeds the number of the caller's
\* rows that match the query.
SearchTotalWithinMatches ==
    [][RequestStep("search", 200) => resp'.total <= Cardinality(MatchingRows)]_vars
====
